---- MODULE Spec2Model ----
(***************************************************************************)
(* Demand capacity simulator: runFullSimulation (cohort version) and the   *)
(* demand generators, as a state machine.  One run of runFullSimulation is *)
(* deterministic; Init draws its arguments (machines, curves,              *)
(* queueTimeout) from bounded sets, and the actions are the steps of the   *)
(* minute loop.                                                            *)
(*                                                                         *)
(* Numbers.  JavaScript numbers are modelled as exact rationals            *)
(* [num, den] in lowest terms (den > 0); a division by zero gives the      *)
(* non-finite values NaN (0/0) and Infinity (1/0).  Rounding of IEEE       *)
(* doubles is not modelled.  Math.exp and Math.sqrt(2*Math.PI) have        *)
(* irrational values; they are replaced by the rational stand-ins Exp and  *)
(* Sqrt2Pi below, which keep the structure the generator relies on (a bell *)
(* around the peak, scaled by the closed-form integral and not by the      *)
(* discrete sum).                                                          *)
(*                                                                         *)
(* The horizon (1440 minutes in the source) and the peak window (180       *)
(* minutes) are scaled down to H and PeakWindow.                           *)
(***************************************************************************)
EXTENDS Integers, Sequences, FiniteSets, TLC

\* ---------------------------------------------------------------- bounds
H == 6              \* minutes of the horizon (1440 in the source)
PeakWindow == 2     \* minutes of the peak window (180 in the source)
MaxMachines == 2    \* capacities 0..MaxMachines
MaxTimeout == 1     \* queue timeouts 0..MaxTimeout
MaxCurves == 2      \* 0..MaxCurves demand curves

\* ------------------------------------------------------ program constants
MinutesPerHour == 60
SampleEvery == 5

\* ------------------------------------------------------------- arithmetic
RECURSIVE GCD(_, _)
GCD(a, b) == IF b = 0 THEN a ELSE GCD(b, a % b)

Abs(n) == IF n < 0 THEN -n ELSE n

\* n/d in lowest terms, d > 0; n/0 is NaN or an infinity
Rat(n, d) ==
  IF d = 0
    THEN [num |-> IF n > 0 THEN 1 ELSE IF n < 0 THEN -1 ELSE 0, den |-> 0]
    ELSE LET g == GCD(Abs(n), Abs(d))
             s == IF d < 0 THEN -1 ELSE 1
         IN  [num |-> (s * n) \div g, den |-> (s * d) \div g]

Num(n) == [num |-> n, den |-> 1]
Zero == Num(0)
NaN == [num |-> 0, den |-> 0]
Infinity == [num |-> 1, den |-> 0]
IsFinite(a) == a.den # 0

Plus(a, b) == Rat(a.num * b.den + b.num * a.den, a.den * b.den)
Minus(a, b) == Rat(a.num * b.den - b.num * a.den, a.den * b.den)
Times(a, b) == Rat(a.num * b.num, a.den * b.den)
\* a / b on non-negative finite numbers; x/0 is non-finite as in JavaScript
Div(a, b) ==
  IF b.num = 0
    THEN (IF a.num = 0 THEN NaN ELSE Infinity)
    ELSE Rat(a.num * b.den, a.den * b.num)
Less(a, b) == a.num * b.den < b.num * a.den
Leq(a, b) == a.num * b.den <= b.num * a.den
Max(a, b) == IF Less(a, b) THEN b ELSE a

\* floor of a finite rational
Floor(a) == a.num \div a.den
\* Math.round: the nearest integer, halves up
Round(a) == Floor(Plus(a, Rat(1, 2)))
\* Number.prototype.toFixed(1): the digits as a count of tenths, or the
\* name of the non-finite value
ToFixed1(a) ==
  IF IsFinite(a)
    THEN [tenths |-> Round(Times(a, Num(10)))]
    ELSE [text |-> IF a = NaN THEN "NaN" ELSE "Infinity"]

\* sum of a sequence of numbers, left to right from 0 (Array.reduce)
RECURSIVE SumSeq(_)
SumSeq(s) ==
  IF s = <<>> THEN Zero
  ELSE Plus(SumSeq(SubSeq(s, 1, Len(s) - 1)), s[Len(s)])

\* ------------------------------------------------------ demand generators
\* stand-in for Math.exp on exponents <= 0: first-order, clamped at 0
Exp(e) == Max(Zero, Plus(Num(1), e))
\* stand-in for Math.sqrt(2 * Math.PI)
Sqrt2Pi == Rat(5, 2)

gaussian(x, mean, stdDev) ==
  LET z == Div(Minus(x, mean), stdDev)
      exponent == Times(Rat(-1, 2), Times(z, z))
  IN  Exp(exponent)

generateGaussianDemand(totalDemand, peakHour, curveWidth) ==
  LET stdDevMinutes == Times(curveWidth, Num(MinutesPerHour))
      peakMinute == Times(peakHour, Num(MinutesPerHour))
      gaussianIntegral == Times(stdDevMinutes, Sqrt2Pi)
      scaleFactor == Div(totalDemand, gaussianIntegral)
  IN  [m \in 1..H |->
         Times(scaleFactor, gaussian(Num(m - 1), peakMinute, stdDevMinutes))]

\* mutant: the volume is divided by one minute less than the horizon
generateLinearDemandOffByOne(totalDemand) ==
  LET constantDemand == Div(totalDemand, Num(H - 1))
  IN  [m \in 1..H |-> constantDemand]

generateLinearDemand(totalDemand) ==
  LET constantDemand == Div(totalDemand, Num(H))
  IN  [m \in 1..H |-> constantDemand]

\* ------------------------------------------------------------------ state
VARIABLES
  machines, curves, queueTimeout,      \* the arguments of runFullSimulation
  demandByCurve,                       \* id -> trace of H per-minute demands
  points,                              \* the sampled time series (data)
  totalUtilization, demandValues,
  queuesByCurve, utilizationByCurve, shedByCurve, usageValuesByCurve,
  totalShedDemand,
  minute,                              \* the loop variable of the minute loop
  demand, shedThisMinute,              \* locals of one minute
  priorityLevels, lvl,                 \* sorted priority levels, the next one
  availableCapacity, actualUsage, curveUsageThisMinute,
  combinedQueue, i,                    \* merged queue of the level, loop index
  result,                              \* the returned metrics
  pc,
  returned,                            \* what earlier calls returned to the caller
  isRunning,                           \* the flag of the Shapley page
  iterationCount,                      \* ShapleySimulation.iterationCount
  loops,                               \* the calls of runSimulation of the page
  board,                               \* a Board: its grid, pieces and nextPieceId
  gravity,                             \* the position of a call of Board.applyGravity
  call,                                \* the last Board method called and its value
  originalBoard,                       \* ShapleySimulation.originalBoard
  contributions,                       \* ShapleySimulation.contributions
  generator                            \* the generator of runIteration in use

\* the variables of the demand simulator
engineVars == <<machines, curves, queueTimeout, demandByCurve, points,
                totalUtilization, demandValues, queuesByCurve, utilizationByCurve,
                shedByCurve, usageValuesByCurve, totalShedDemand, minute, demand,
                shedThisMinute, priorityLevels, lvl, availableCapacity, actualUsage,
                curveUsageThisMinute, combinedQueue, i, result, pc, returned>>
\* the variables of the Shapley page
pageVars == <<isRunning, iterationCount, loops>>
\* the variables of a Board under its methods
boardVars == <<board, gravity, call>>
\* the variables of a ShapleySimulation
shapleyVars == <<originalBoard, contributions, generator>>
vars == <<engineVars, pageVars, boardVars, shapleyVars>>

\* src/shapley/js/main.js, lines 268-270 and 355: the page after its first
\* generateBoard, no animation started
PageLoaded == isRunning = FALSE /\ iterationCount = 0 /\ loops = <<>>

\* ---------------------------------------------------------------------------
\* src/shapley/js/board.js: the Board class
\* ---------------------------------------------------------------------------

\* the board of the model is BoardWidth columns by BoardHeight rows and holds
\* at most MaxPlaced pieces placed over its life
BoardWidth == 4
BoardHeight == 4
MaxPlaced == 2

\* null, in a grid cell and as a return value
Null == -1

Columns == 0 .. BoardWidth - 1
Rows == 0 .. BoardHeight - 1

\* lines 25-41, the constructor and clear: an empty grid, no piece, nextPieceId = 0
EmptyBoard ==
  [grid |-> [y \in Rows |-> [x \in Columns |-> Null]],
   pieces |-> <<>>,
   nextPieceId |-> 0]

\* no call of applyGravity is under way
GravityIdle == [at |-> "idle", pieceIds |-> <<>>, k |-> 0, changed |-> FALSE, totalDropped |-> 0]
\* no method of the board has been called yet
NoCall == [op |-> "none", args |-> <<>>, value |-> Null]
\* no generator of runIteration exists
NoGenerator == [at |-> "none", board |-> EmptyBoard, permutation |-> <<>>, i |-> 0, currentHeight |-> 0, steps |-> <<>>]

\* the demand simulator and the page's run button use no board
NoBoard ==
  /\ board = EmptyBoard /\ gravity = GravityIdle /\ call = NoCall
  /\ originalBoard = EmptyBoard /\ contributions = <<>> /\ generator = NoGenerator

\* the state as one record, so that a step is a function on states
Cur ==
  [machines |-> machines, curves |-> curves, queueTimeout |-> queueTimeout,
   demandByCurve |-> demandByCurve, points |-> points,
   totalUtilization |-> totalUtilization, demandValues |-> demandValues,
   queuesByCurve |-> queuesByCurve, utilizationByCurve |-> utilizationByCurve,
   shedByCurve |-> shedByCurve, usageValuesByCurve |-> usageValuesByCurve,
   totalShedDemand |-> totalShedDemand, minute |-> minute, demand |-> demand,
   shedThisMinute |-> shedThisMinute, priorityLevels |-> priorityLevels,
   lvl |-> lvl, availableCapacity |-> availableCapacity,
   actualUsage |-> actualUsage, curveUsageThisMinute |-> curveUsageThisMinute,
   combinedQueue |-> combinedQueue, i |-> i, result |-> result, pc |-> pc]

Assign(t) ==
  /\ machines' = t.machines
  /\ curves' = t.curves
  /\ queueTimeout' = t.queueTimeout
  /\ demandByCurve' = t.demandByCurve
  /\ points' = t.points
  /\ totalUtilization' = t.totalUtilization
  /\ demandValues' = t.demandValues
  /\ queuesByCurve' = t.queuesByCurve
  /\ utilizationByCurve' = t.utilizationByCurve
  /\ shedByCurve' = t.shedByCurve
  /\ usageValuesByCurve' = t.usageValuesByCurve
  /\ totalShedDemand' = t.totalShedDemand
  /\ minute' = t.minute
  /\ demand' = t.demand
  /\ shedThisMinute' = t.shedThisMinute
  /\ priorityLevels' = t.priorityLevels
  /\ lvl' = t.lvl
  /\ availableCapacity' = t.availableCapacity
  /\ actualUsage' = t.actualUsage
  /\ curveUsageThisMinute' = t.curveUsageThisMinute
  /\ combinedQueue' = t.combinedQueue
  /\ i' = t.i
  /\ result' = t.result
  /\ pc' = t.pc

\* ----------------------------------------------------------------- inputs
\* total volumes of linear curves: 0, 2 and 3 per minute
LinearVolumes == {0, 2 * H, 3 * H}
\* total volumes of gaussian curves
GaussianVolumes == {Rat(5, 2)}
\* (peakHour, curveWidth) of gaussian curves, in hours: the peak in minute
\* 2, a standard deviation of one minute
GaussianShapes == {<<Rat(2, MinutesPerHour), Rat(1, MinutesPerHour)>>}
Priorities == {1, 2}

CurveOptions ==
  {[type |-> "linear", totalDemand |-> Num(v), peakHour |-> Zero,
    curveWidth |-> Zero, priority |-> p] : v \in LinearVolumes, p \in Priorities}
  \cup
  {[type |-> "gaussian", totalDemand |-> v, peakHour |-> sh[1],
    curveWidth |-> sh[2], priority |-> p] :
      v \in GaussianVolumes, sh \in GaussianShapes, p \in Priorities}

\* the curve lists: curve k of the list has the identifier k
CurveLists ==
  UNION {{[k \in 1..n |->
             [id |-> k, type |-> f[k].type, totalDemand |-> f[k].totalDemand,
              peakHour |-> f[k].peakHour, curveWidth |-> f[k].curveWidth,
              priority |-> f[k].priority]] : f \in [1..n -> CurveOptions]} :
         n \in 0..MaxCurves}

CurveIds(cs) == {cs[k].id : k \in DOMAIN cs}

\* the last curve of the list with the identifier id (a later write under
\* the same key replaces an earlier one)
LastCurve(cs, id) ==
  cs[CHOOSE k \in DOMAIN cs :
       cs[k].id = id /\ \A j \in DOMAIN cs : cs[j].id = id => j <= k]

\* lines 33-42: the trace of every curve
GenerateDemand(cs) ==
  [id \in CurveIds(cs) |->
     LET curve == LastCurve(cs, id)
     IN  IF curve.type = "linear"
           THEN generateLinearDemand(curve.totalDemand)
           ELSE generateGaussianDemand(curve.totalDemand, curve.peakHour,
                                       curve.curveWidth)]

\* lines 30-59: the state when the minute loop is entered
InitState(m, cs, t) ==
  [machines |-> m, curves |-> cs, queueTimeout |-> t,
   demandByCurve |-> GenerateDemand(cs), points |-> <<>>,
   totalUtilization |-> Zero, demandValues |-> <<>>,
   queuesByCurve |-> [id \in CurveIds(cs) |-> <<>>],
   utilizationByCurve |-> [id \in CurveIds(cs) |-> Zero],
   shedByCurve |-> [id \in CurveIds(cs) |-> Zero],
   usageValuesByCurve |-> [id \in CurveIds(cs) |-> <<>>],
   totalShedDemand |-> Zero, minute |-> 0, demand |-> Zero,
   shedThisMinute |-> Zero, priorityLevels |-> <<>>, lvl |-> 1,
   availableCapacity |-> Zero, actualUsage |-> Zero,
   curveUsageThisMinute |-> [id \in CurveIds(cs) |-> Zero],
   combinedQueue |-> <<>>, i |-> 1, result |-> [status |-> "running"],
   pc |-> "minute"]

Init ==
  \E m \in 0..MaxMachines, cs \in CurveLists, t \in 0..MaxTimeout :
    \E s \in {InitState(Num(m), cs, t)} :
        /\ machines = s.machines
        /\ curves = s.curves
        /\ queueTimeout = s.queueTimeout
        /\ demandByCurve = s.demandByCurve
        /\ points = s.points
        /\ totalUtilization = s.totalUtilization
        /\ demandValues = s.demandValues
        /\ queuesByCurve = s.queuesByCurve
        /\ utilizationByCurve = s.utilizationByCurve
        /\ shedByCurve = s.shedByCurve
        /\ usageValuesByCurve = s.usageValuesByCurve
        /\ totalShedDemand = s.totalShedDemand
        /\ minute = s.minute
        /\ demand = s.demand
        /\ shedThisMinute = s.shedThisMinute
        /\ priorityLevels = s.priorityLevels
        /\ lvl = s.lvl
        /\ availableCapacity = s.availableCapacity
        /\ actualUsage = s.actualUsage
        /\ curveUsageThisMinute = s.curveUsageThisMinute
        /\ combinedQueue = s.combinedQueue
        /\ i = s.i
        /\ result = s.result
        /\ pc = s.pc
        /\ returned = <<>>
        /\ PageLoaded /\ NoBoard

\* ---------------------------------------------------------------- helpers
\* stable insertion sort of the indices 1..n; before[x, y] is the comparison
\* "x sorts before y", and x goes behind every index it is not before
RECURSIVE InsertSorted(_, _, _)
InsertSorted(p, x, before) ==
  IF p = <<>> THEN <<x>>
  ELSE IF before[x, p[Len(p)]]
         THEN Append(InsertSorted(SubSeq(p, 1, Len(p) - 1), x, before), p[Len(p)])
         ELSE Append(p, x)

RECURSIVE SortIndices(_, _)
SortIndices(n, before) ==
  IF n = 0 THEN <<>>
  ELSE InsertSorted(SortIndices(n - 1, before), n, before)

\* Array.prototype.sort (stable) under the comparison before
SortBy(s, before) ==
  LET p == SortIndices(Len(s), before)
  IN  [k \in 1..Len(s) |-> s[p[k]]]

\* the remaining demands of the items of a queue
DemandsOf(q) == [k \in DOMAIN q |-> q[k].demand]

\* the demand of curve id in the minute s.minute
NewDemand(s, id) == s.demandByCurve[id][s.minute + 1]

\* ------------------------------------------------- step 1: expire (61-99)
\* mutant: no item ever times out
ExpiredNever(item, now, timeout) == FALSE

\* mutant: an item may wait one minute longer than the timeout
ExpiredLate(item, now, timeout) == now - item.arrivalTime > timeout + 1

\* line 72
Expired(item, now, timeout) == now - item.arrivalTime > timeout

\* mutant: the expiry does not add to the shed total of the curve
RECURSIVE ExpireCurvesUntracked(_, _)
ExpireCurvesUntracked(s, k) ==
  IF k > Len(s.curves) THEN s
  ELSE
    LET id == s.curves[k].id
        queue == s.queuesByCurve[id]
        gone == SelectSeq(queue, LAMBDA it : Expired(it, s.minute, s.queueTimeout))
        kept == SelectSeq(queue, LAMBDA it : ~Expired(it, s.minute, s.queueTimeout))
        shedAmount == SumSeq(DemandsOf(gone))
    IN  ExpireCurvesUntracked([s EXCEPT !.queuesByCurve[id] = kept,
                                        !.shedThisMinute = Plus(@, shedAmount),
                                        !.totalShedDemand = Plus(@, shedAmount)],
                              k + 1)

\* lines 69-80, from the k-th curve of the list on
RECURSIVE ExpireCurves(_, _)
ExpireCurves(s, k) ==
  IF k > Len(s.curves) THEN s
  ELSE
    LET id == s.curves[k].id
        queue == s.queuesByCurve[id]
        gone == SelectSeq(queue, LAMBDA it : Expired(it, s.minute, s.queueTimeout))
        kept == SelectSeq(queue, LAMBDA it : ~Expired(it, s.minute, s.queueTimeout))
        shedAmount == SumSeq(DemandsOf(gone))
    IN  ExpireCurves([s EXCEPT !.queuesByCurve[id] = kept,
                               !.shedThisMinute = Plus(@, shedAmount),
                               !.totalShedDemand = Plus(@, shedAmount),
                               !.shedByCurve[id] = Plus(@, shedAmount)],
                     k + 1)

\* mutant: every level holds all the curves
CurvesOfAnyPriority(cs, p) == cs

\* lines 84-89: the curves of one priority, in list order
CurvesAtPriority(cs, p) == SelectSeq(cs, LAMBDA c : c.priority = p)

\* mutant: the priority levels, descending
RECURSIVE SortedLevelsDescending(_)
SortedLevelsDescending(ps) ==
  IF ps = {} THEN <<>>
  ELSE LET p == CHOOSE x \in ps : \A y \in ps : x >= y
       IN  <<p>> \o SortedLevelsDescending(ps \ {p})

\* line 92: the priority levels, ascending
RECURSIVE SortedLevels(_)
SortedLevels(ps) ==
  IF ps = {} THEN <<>>
  ELSE LET p == CHOOSE x \in ps : \A y \in ps : x <= y
       IN  <<p>> \o SortedLevels(ps \ {p})

PriorityLevels(cs) == SortedLevels({cs[k].priority : k \in DOMAIN cs})

\* mutant: the curves are ordered by priority in place (curves.sort) before
\* they are grouped
ExpireStepSortingCurves(s) ==
  LET d == SumSeq([k \in DOMAIN s.curves |-> NewDemand(s, s.curves[k].id)])
      e == ExpireCurves([s EXCEPT !.demand = d, !.shedThisMinute = Zero], 1)
      before == [x \in DOMAIN s.curves, y \in DOMAIN s.curves |->
                   s.curves[x].priority < s.curves[y].priority]
  IN  [e EXCEPT !.curves = SortBy(s.curves, before),
                !.priorityLevels = PriorityLevels(s.curves),
                !.lvl = 1,
                !.availableCapacity = s.machines,
                !.actualUsage = Zero,
                !.curveUsageThisMinute = [id \in CurveIds(s.curves) |-> Zero],
                !.pc = "level"]

\* lines 61-99: the head of the minute loop, expiry, and the set-up of the
\* allocation
ExpireStep(s) ==
  LET d == SumSeq([k \in DOMAIN s.curves |-> NewDemand(s, s.curves[k].id)])
      e == ExpireCurves([s EXCEPT !.demand = d, !.shedThisMinute = Zero], 1)
  IN  [e EXCEPT !.priorityLevels = PriorityLevels(s.curves),
                !.lvl = 1,
                !.availableCapacity = s.machines,
                !.actualUsage = Zero,
                !.curveUsageThisMinute = [id \in CurveIds(s.curves) |-> Zero],
                !.pc = "level"]

\* ---------------------------------------- step 2a: admit and merge (103-131)
\* lines 106-116, from the k-th curve of the level on
RECURSIVE AdmitCurves(_, _, _)
AdmitCurves(s, group, k) ==
  IF k > Len(group) THEN s
  ELSE
    LET curve == group[k]
        newDemand == NewDemand(s, curve.id)
        item == [arrivalTime |-> s.minute, demand |-> newDemand,
                 curveId |-> curve.id, priority |-> curve.priority]
    IN  AdmitCurves(IF Less(Zero, newDemand)
                      THEN [s EXCEPT !.queuesByCurve[curve.id] = Append(@, item)]
                      ELSE s,
                    group, k + 1)

\* lines 120-125: references to the items of the queues of the level; an
\* item of combinedQueue is the same object as the item in its queue
RECURSIVE MergeQueues(_, _, _)
MergeQueues(s, group, k) ==
  IF k > Len(group) THEN <<>>
  ELSE [j \in DOMAIN s.queuesByCurve[group[k].id] |->
          [curveId |-> group[k].id, idx |-> j]]
       \o MergeQueues(s, group, k + 1)

ItemAt(s, ref) == s.queuesByCurve[ref.curveId][ref.idx]

\* mutant: the sort is descending, the newest demand is served first
NewerFirst(s, a, b) == ItemAt(s, a).arrivalTime > ItemAt(s, b).arrivalTime

\* line 128: the comparison of the sort
OlderFirst(s, a, b) == ItemAt(s, a).arrivalTime < ItemAt(s, b).arrivalTime

\* mutant: the new demand of every curve, of every priority, is queued
\* before the first level is served
AdmitStepAllCurves(s) ==
  LET group == CurvesAtPriority(s.curves, s.priorityLevels[s.lvl])
      a == IF s.lvl = 1 THEN AdmitCurves(s, s.curves, 1) ELSE s
      merged == MergeQueues(a, group, 1)
      before == [x \in DOMAIN merged, y \in DOMAIN merged |->
                   OlderFirst(a, merged[x], merged[y])]
  IN  [a EXCEPT !.combinedQueue = SortBy(merged, before),
                !.i = 1,
                !.pc = "cohort"]

\* lines 103-131
AdmitStep(s) ==
  LET group == CurvesAtPriority(s.curves, s.priorityLevels[s.lvl])
      a == AdmitCurves(s, group, 1)
      merged == MergeQueues(a, group, 1)
      before == [x \in DOMAIN merged, y \in DOMAIN merged |->
                   OlderFirst(a, merged[x], merged[y])]
  IN  [a EXCEPT !.combinedQueue = SortBy(merged, before),
                !.i = 1,
                !.pc = "cohort"]

\* ------------------------------------------- step 3: one cohort (132-163)
\* mutant: an if in place of the while, only the oldest cohort is served
FirstCohortOnly(s) == s.i = 1 /\ s.i <= Len(s.combinedQueue) /\ Less(Zero, s.availableCapacity)

\* line 132
LoopCondition(s) == s.i <= Len(s.combinedQueue) /\ Less(Zero, s.availableCapacity)

\* mutant: no grouping by arrival minute, every item is a cohort of its own
CohortOfOne(s, j) == j

\* lines 134-139: the last index of the cohort that starts at s.i
RECURSIVE CohortEnd(_, _)
CohortEnd(s, j) ==
  IF j < Len(s.combinedQueue)
     /\ ItemAt(s, s.combinedQueue[j + 1]).arrivalTime
          = ItemAt(s, s.combinedQueue[s.i]).arrivalTime
    THEN CohortEnd(s, j + 1)
    ELSE j

\* lines 146-151, from the k-th item of the cohort on
RECURSIVE ServeFully(_, _, _)
ServeFully(s, cohort, k) ==
  IF k > Len(cohort) THEN s
  ELSE
    LET ref == cohort[k]
        item == ItemAt(s, ref)
    IN  ServeFully([s EXCEPT !.actualUsage = Plus(@, item.demand),
                             !.curveUsageThisMinute[item.curveId] = Plus(@, item.demand),
                             !.availableCapacity = Minus(@, item.demand),
                             !.queuesByCurve[ref.curveId][ref.idx].demand = Zero],
                   cohort, k + 1)

\* mutant: an item takes what it needs of the capacity, as far as it goes
ShareGreedy(itemDemand, cohortDemand, available) ==
  IF Leq(itemDemand, available) THEN itemDemand ELSE available

\* lines 155-156
ShareServed(itemDemand, cohortDemand, available) ==
  Times(available, Div(itemDemand, cohortDemand))

\* mutant: a partly served item counts as arrived in the minute of its
\* last service
RECURSIVE ServeSharesRefreshing(_, _, _, _)
ServeSharesRefreshing(s, cohort, cohortDemand, k) ==
  IF k > Len(cohort) THEN s
  ELSE
    LET ref == cohort[k]
        item == ItemAt(s, ref)
        served == ShareServed(item.demand, cohortDemand, s.availableCapacity)
    IN  ServeSharesRefreshing(
          [s EXCEPT !.actualUsage = Plus(@, served),
                    !.curveUsageThisMinute[item.curveId] = Plus(@, served),
                    !.queuesByCurve[ref.curveId][ref.idx].demand = Minus(@, served),
                    !.queuesByCurve[ref.curveId][ref.idx].arrivalTime = s.minute],
          cohort, cohortDemand, k + 1)

\* mutant: the items of a cohort that does not fit are served one after the
\* other, in the order of the list of curves, each as far as capacity goes
RECURSIVE ServeSharesInTurn(_, _, _, _)
ServeSharesInTurn(s, cohort, cohortDemand, k) ==
  IF k > Len(cohort) THEN s
  ELSE
    LET ref == cohort[k]
        item == ItemAt(s, ref)
        served == IF Leq(item.demand, s.availableCapacity)
                    THEN item.demand ELSE s.availableCapacity
    IN  ServeSharesInTurn(
          [s EXCEPT !.actualUsage = Plus(@, served),
                    !.curveUsageThisMinute[item.curveId] = Plus(@, served),
                    !.availableCapacity = Minus(@, served),
                    !.queuesByCurve[ref.curveId][ref.idx].demand = Minus(@, served)],
          cohort, cohortDemand, k + 1)

\* lines 154-160, from the k-th item of the cohort on
RECURSIVE ServeShares(_, _, _, _)
ServeShares(s, cohort, cohortDemand, k) ==
  IF k > Len(cohort) THEN s
  ELSE
    LET ref == cohort[k]
        item == ItemAt(s, ref)
        served == ShareServed(item.demand, cohortDemand, s.availableCapacity)
    IN  ServeShares([s EXCEPT !.actualUsage = Plus(@, served),
                              !.curveUsageThisMinute[item.curveId] = Plus(@, served),
                              !.queuesByCurve[ref.curveId][ref.idx].demand =
                                 Minus(@, served)],
                    cohort, cohortDemand, k + 1)

\* mutant: every cohort is served in full
AlwaysFits(cohortDemand, available) == TRUE

\* line 144
FitsCapacity(cohortDemand, available) == Leq(cohortDemand, available)

\* mutant: the scan of the cohort does not advance the index of the loop
CohortStepNotAdvancing(s) ==
  LET last == CohortEnd(s, s.i)
      cohort == SubSeq(s.combinedQueue, s.i, last)
      cohortDemand == SumSeq([k \in DOMAIN cohort |-> ItemAt(s, cohort[k]).demand])
  IN  IF FitsCapacity(cohortDemand, s.availableCapacity)
        THEN ServeFully(s, cohort, 1)
        ELSE [ServeShares(s, cohort, cohortDemand, 1) EXCEPT
                !.availableCapacity = Zero]

\* lines 132-163: one pass of the while loop
CohortStep(s) ==
  LET last == CohortEnd(s, s.i)
      cohort == SubSeq(s.combinedQueue, s.i, last)
      cohortDemand == SumSeq([k \in DOMAIN cohort |-> ItemAt(s, cohort[k]).demand])
      t == [s EXCEPT !.i = last + 1]
  IN  IF FitsCapacity(cohortDemand, s.availableCapacity)
        THEN ServeFully(t, cohort, 1)
        ELSE [ServeShares(t, cohort, cohortDemand, 1) EXCEPT
                !.availableCapacity = Zero]

\* ------------------------------------------------- lines 165-168: filter
\* mutant: items served in full stay in the queue
StaysQueuedAtZero(item) == Leq(Zero, item.demand)

\* line 167
StaysQueued(item) == Less(Zero, item.demand)

RECURSIVE FilterCurves(_, _, _)
FilterCurves(s, group, k) ==
  IF k > Len(group) THEN s
  ELSE FilterCurves([s EXCEPT !.queuesByCurve[group[k].id] =
                                 SelectSeq(@, StaysQueued)],
                    group, k + 1)

\* mutant: capacity that a level leaves over does not reach the next level
FilterStepDroppingCapacity(s) ==
  LET group == CurvesAtPriority(s.curves, s.priorityLevels[s.lvl])
  IN  [FilterCurves(s, group, 1) EXCEPT !.lvl = s.lvl + 1, !.combinedQueue = <<>>,
                                        !.i = 1, !.pc = "level",
                                        !.availableCapacity = Zero]

\* lines 165-169
FilterStep(s) ==
  LET group == CurvesAtPriority(s.curves, s.priorityLevels[s.lvl])
  IN  [FilterCurves(s, group, 1) EXCEPT !.lvl = s.lvl + 1, !.combinedQueue = <<>>,
                                        !.i = 1, !.pc = "level"]

\* ------------------------------------------------- step 4: record (171-204)
\* lines 172-175, from the k-th curve of the list on
\* mutant: the served total of a curve is overwritten by the usage of the
\* minute
RECURSIVE RecordCurvesOverwriting(_, _)
RecordCurvesOverwriting(s, k) ==
  IF k > Len(s.curves) THEN s
  ELSE
    LET id == s.curves[k].id
        usage == s.curveUsageThisMinute[id]
    IN  RecordCurvesOverwriting(
          [s EXCEPT !.utilizationByCurve[id] = usage,
                    !.usageValuesByCurve[id] =
                       Append(@, [minute |-> s.minute, usage |-> usage])],
          k + 1)

RECURSIVE RecordCurves(_, _)
RecordCurves(s, k) ==
  IF k > Len(s.curves) THEN s
  ELSE
    LET id == s.curves[k].id
        usage == s.curveUsageThisMinute[id]
    IN  RecordCurves([s EXCEPT !.utilizationByCurve[id] = Plus(@, usage),
                               !.usageValuesByCurve[id] =
                                  Append(@, [minute |-> s.minute, usage |-> usage])],
                     k + 1)

\* lines 180-182
QueueSize(s) ==
  SumSeq([k \in DOMAIN s.curves |->
            SumSeq(DemandsOf(s.queuesByCurve[s.curves[k].id]))])

\* mutant: the sampled minutes are off by one
SampledOffByOne(m) == m % SampleEvery = 1

\* line 186
Sampled(m) == m % SampleEvery = 0

\* lines 187-200; time is the pair of numbers that line 188 formats
Point(s, queueSize) ==
  [time |-> [hh |-> s.minute \div MinutesPerHour, mm |-> s.minute % MinutesPerHour],
   hour |-> Rat(s.minute, MinutesPerHour),
   inputDemand |-> s.demand,
   actualUtilization |-> s.actualUsage,
   capacity |-> s.machines,
   queuedDemand |-> queueSize,
   shedDemand |-> s.shedThisMinute,
   demandOf |-> [id \in CurveIds(s.curves) |-> NewDemand(s, id)]]

\* mutant: the served total is accumulated in the sampled minutes only
RecordStepSampledOnly(s) ==
  LET r == RecordCurves(s, 1)
      queueSize == QueueSize(s)
  IN  [r EXCEPT !.totalUtilization = IF Sampled(s.minute)
                                       THEN Plus(@, s.actualUsage)
                                       ELSE @,
                !.demandValues =
                   Append(@, [minute |-> s.minute, demand |-> s.demand,
                              usage |-> s.actualUsage, queueSize |-> queueSize,
                              shed |-> s.shedThisMinute]),
                !.points = IF Sampled(s.minute)
                             THEN Append(@, Point(s, queueSize))
                             ELSE @,
                !.minute = s.minute + 1,
                !.pc = "minute"]

RecordStep(s) ==
  LET r == RecordCurves(s, 1)
      queueSize == QueueSize(s)
  IN  [r EXCEPT !.totalUtilization = Plus(@, s.actualUsage),
                !.demandValues =
                   Append(@, [minute |-> s.minute, demand |-> s.demand,
                              usage |-> s.actualUsage, queueSize |-> queueSize,
                              shed |-> s.shedThisMinute]),
                !.points = IF Sampled(s.minute)
                             THEN Append(@, Point(s, queueSize))
                             ELSE @,
                !.minute = s.minute + 1,
                !.pc = "minute"]

\* ------------------------------------------- step 5: final drain (206-213)
\* mutant: the final drain sheds only what is older than the timeout
RECURSIVE DrainExpiredOnly(_, _)
DrainExpiredOnly(s, k) ==
  IF k > Len(s.curves) THEN s
  ELSE
    LET id == s.curves[k].id
        gone == SelectSeq(s.queuesByCurve[id],
                          LAMBDA it : Expired(it, s.minute, s.queueTimeout))
        shedAmount == SumSeq(DemandsOf(gone))
    IN  DrainExpiredOnly([s EXCEPT !.totalShedDemand = Plus(@, shedAmount),
                                   !.shedByCurve[id] = Plus(@, shedAmount)],
                         k + 1)

\* mutant: the drain adds to the aggregate shed total only
RECURSIVE DrainAggregateOnly(_, _)
DrainAggregateOnly(s, k) ==
  IF k > Len(s.curves) THEN s
  ELSE
    LET id == s.curves[k].id
        shedAmount == SumSeq(DemandsOf(s.queuesByCurve[id]))
    IN  DrainAggregateOnly([s EXCEPT !.totalShedDemand = Plus(@, shedAmount)],
                           k + 1)

RECURSIVE DrainCurves(_, _)
DrainCurves(s, k) ==
  IF k > Len(s.curves) THEN s
  ELSE
    LET id == s.curves[k].id
        shedAmount == SumSeq(DemandsOf(s.queuesByCurve[id]))
    IN  DrainCurves([s EXCEPT !.totalShedDemand = Plus(@, shedAmount),
                              !.shedByCurve[id] = Plus(@, shedAmount)],
                    k + 1)

\* mutant: what the drain sheds is added to the shed amount of the last
\* minute of the trace
DrainStepIntoLastMinute(s) ==
  [DrainCurves(s, 1) EXCEPT
     !.pc = "metrics",
     !.demandValues[Len(s.demandValues)].shed = Plus(@, QueueSize(s))]

\* lines 206-213
DrainStep(s) == [DrainCurves(s, 1) EXCEPT !.pc = "metrics"]

\* -------------------------------------------------- metrics (215-253)
\* mutant: the series is not sorted, the window holds the first minutes
PeakOfFirstMinutes(series) ==
  LET top == SubSeq(series, 1, IF Len(series) < PeakWindow THEN Len(series)
                                                           ELSE PeakWindow)
  IN  Div(SumSeq([k \in DOMAIN top |-> top[k].usage]), Num(PeakWindow))

\* lines 215-217 and 227-229: the mean, over the peak window, of the
\* largest usages of a series
PeakOf(series) ==
  LET before == [x \in DOMAIN series, y \in DOMAIN series |->
                   Less(series[y].usage, series[x].usage)]
      sorted == SortBy(series, before)
      top == SubSeq(sorted, 1, IF Len(sorted) < PeakWindow THEN Len(sorted)
                                                          ELSE PeakWindow)
  IN  Div(SumSeq([k \in DOMAIN top |-> top[k].usage]), Num(PeakWindow))

\* mutant: the shed percent of a curve without volume is reported as 0
CurveMetricsGuarded(s, curve) ==
  [totalUtilization |-> Round(s.utilizationByCurve[curve.id]),
   peakUtilization |-> ToFixed1(PeakOf(s.usageValuesByCurve[curve.id])),
   avgUtilization |-> ToFixed1(Div(s.utilizationByCurve[curve.id], Num(H))),
   shedDemand |-> Round(s.shedByCurve[curve.id]),
   shedPercent |->
     IF curve.totalDemand = Zero
       THEN ToFixed1(Zero)
       ELSE ToFixed1(Times(Div(s.shedByCurve[curve.id], curve.totalDemand),
                           Num(100)))]

\* lines 225-239
CurveMetrics(s, curve) ==
  [totalUtilization |-> Round(s.utilizationByCurve[curve.id]),
   peakUtilization |-> ToFixed1(PeakOf(s.usageValuesByCurve[curve.id])),
   avgUtilization |-> ToFixed1(Div(s.utilizationByCurve[curve.id], Num(H))),
   shedDemand |-> Round(s.shedByCurve[curve.id]),
   shedPercent |->
     ToFixed1(Times(Div(s.shedByCurve[curve.id], curve.totalDemand), Num(100)))]

\* mutant: the average is taken over the peak window, not over the day
MetricsStepAverageOverWindow(s) ==
  LET peakUtilization == PeakOf(s.demandValues)
      avgUtilization == Div(s.totalUtilization, Num(PeakWindow))
      aggregateTotalDemand ==
        SumSeq([k \in DOMAIN s.curves |-> s.curves[k].totalDemand])
      metricsByCurve ==
        [id \in CurveIds(s.curves) |-> CurveMetrics(s, LastCurve(s.curves, id))]
  IN  [s EXCEPT
         !.result =
            [status |-> "returned",
             data |-> s.points,
             metrics |->
               [totalUtilization |-> Round(s.totalUtilization),
                peakUtilization |-> ToFixed1(peakUtilization),
                avgUtilization |-> ToFixed1(avgUtilization),
                peakPercent |->
                  ToFixed1(Times(Div(peakUtilization, s.machines), Num(100))),
                avgPercent |->
                  ToFixed1(Times(Div(avgUtilization, s.machines), Num(100))),
                shedDemand |-> Round(s.totalShedDemand),
                shedPercent |->
                  ToFixed1(Times(Div(s.totalShedDemand, aggregateTotalDemand),
                                 Num(100))),
                byCurve |-> metricsByCurve]],
         !.pc = "done"]

\* lines 215-253
MetricsStep(s) ==
  LET peakUtilization == PeakOf(s.demandValues)
      avgUtilization == Div(s.totalUtilization, Num(H))
      aggregateTotalDemand ==
        SumSeq([k \in DOMAIN s.curves |-> s.curves[k].totalDemand])
      metricsByCurve ==
        [id \in CurveIds(s.curves) |-> CurveMetrics(s, LastCurve(s.curves, id))]
  IN  [s EXCEPT
         !.result =
            [status |-> "returned",
             data |-> s.points,
             metrics |->
               [totalUtilization |-> Round(s.totalUtilization),
                peakUtilization |-> ToFixed1(peakUtilization),
                avgUtilization |-> ToFixed1(avgUtilization),
                peakPercent |->
                  ToFixed1(Times(Div(peakUtilization, s.machines), Num(100))),
                avgPercent |->
                  ToFixed1(Times(Div(avgUtilization, s.machines), Num(100))),
                shedDemand |-> Round(s.totalShedDemand),
                shedPercent |->
                  ToFixed1(Times(Div(s.totalShedDemand, aggregateTotalDemand),
                                 Num(100))),
                byCurve |-> metricsByCurve]],
         !.pc = "done"]

\* ---------------------------------------------------------------- control
\* line 61: the condition of the minute loop
InMinuteLoop(s) == s.pc = "minute" /\ s.minute < H
AfterMinuteLoop(s) == s.pc = "minute" /\ ~(s.minute < H)
\* line 102: the forEach over the priority levels
HasLevel(s) == s.pc = "level" /\ s.lvl <= Len(s.priorityLevels)
LevelsDone(s) == s.pc = "level" /\ ~(s.lvl <= Len(s.priorityLevels))
\* line 132: the while loop over the cohorts
InCohortLoop(s) == s.pc = "cohort" /\ LoopCondition(s)
AfterCohortLoop(s) == s.pc = "cohort" /\ ~LoopCondition(s)

\* ---------------------------------------------------------------- actions
Expire == InMinuteLoop(Cur) /\ Assign(ExpireStep(Cur)) /\ UNCHANGED <<returned, pageVars, boardVars, shapleyVars>>
Admit == HasLevel(Cur) /\ Assign(AdmitStep(Cur)) /\ UNCHANGED <<returned, pageVars, boardVars, shapleyVars>>
ServeCohort == InCohortLoop(Cur) /\ Assign(CohortStep(Cur)) /\ UNCHANGED <<returned, pageVars, boardVars, shapleyVars>>
Filter == AfterCohortLoop(Cur) /\ Assign(FilterStep(Cur)) /\ UNCHANGED <<returned, pageVars, boardVars, shapleyVars>>
Record == LevelsDone(Cur) /\ Assign(RecordStep(Cur)) /\ UNCHANGED <<returned, pageVars, boardVars, shapleyVars>>
Drain == AfterMinuteLoop(Cur) /\ Assign(DrainStep(Cur)) /\ UNCHANGED <<returned, pageVars, boardVars, shapleyVars>>
Metrics == pc = "metrics" /\ Assign(MetricsStep(Cur)) /\ UNCHANGED <<returned, pageVars, boardVars, shapleyVars>>

Next == Expire \/ Admit \/ ServeCohort \/ Filter \/ Record \/ Drain \/ Metrics

Spec == Init /\ [][Next]_vars

\* ------------------------------------------------------- the run as a whole
\* the step the program takes in state s
Step(s) ==
  CASE InMinuteLoop(s) -> ExpireStep(s)
    [] AfterMinuteLoop(s) -> DrainStep(s)
    [] HasLevel(s) -> AdmitStep(s)
    [] LevelsDone(s) -> RecordStep(s)
    [] InCohortLoop(s) -> CohortStep(s)
    [] AfterCohortLoop(s) -> FilterStep(s)
    [] s.pc = "metrics" -> MetricsStep(s)

\* runFullSimulation(m, cs, t): the state in which it returns
RECURSIVE RunFrom(_)
RunFrom(s) == IF s.pc = "done" THEN s ELSE RunFrom(Step(s))

runFullSimulation(m, cs, t) == RunFrom(InitState(m, cs, t))

\* ------------------------------------------------------------- properties
Done == pc = "done"
\* the minute m of the run is over (its record has been written)
EndOfMinute == pc = "minute" /\ minute > 0
CurveSet == {curves[k] : k \in DOMAIN curves}
\* the demand a curve generates over the horizon
TraceSum(id) == SumSeq(demandByCurve[id])
\* what the curve was served in the recorded minute m (0-based)
UsageIn(id, m) == usageValuesByCurve[id][m + 1].usage
DemandIn(id, m) == demandByCurve[id][m + 1]
RecordedMinutes == 0..(Len(demandValues) - 1)
AllQueuesEmpty == \A id \in CurveIds(curves) : queuesByCurve[id] = <<>>

\* C1: when runFullSimulation has finished, for every source the total
\* served plus the total shed equals the sum of the source's per-minute
\* demand trace, which for a linear source is its total demand volume; and
\* the aggregate served plus the aggregate shed equals the sum of all traces.
Conservation ==
  Done =>
    /\ \A c \in CurveSet :
         /\ Plus(utilizationByCurve[c.id], shedByCurve[c.id]) = TraceSum(c.id)
         /\ c.type = "linear" =>
              Plus(utilizationByCurve[c.id], shedByCurve[c.id]) = c.totalDemand
    /\ Plus(totalUtilization, totalShedDemand)
         = SumSeq([k \in DOMAIN curves |-> TraceSum(curves[k].id)])

\* a finished run of two sources in which a linear source and a gaussian
\* source were both served in part and shed in part
ConservationWitness ==
  /\ Done
  /\ Len(curves) = 2
  /\ \E c \in CurveSet : c.type = "linear" /\ Less(Zero, utilizationByCurve[c.id])
                          /\ Less(Zero, shedByCurve[c.id])
  /\ \E c \in CurveSet : c.type = "gaussian" /\ Less(Zero, utilizationByCurve[c.id])
                          /\ Less(Zero, shedByCurve[c.id])

\* C2: in every minute the total served never exceeds the capacity, the
\* capacity left during the allocation is never negative, and no queued
\* item has a negative remaining demand.
CapacityRespected ==
  /\ Leq(actualUsage, machines)
  /\ Leq(Zero, availableCapacity)
  /\ \A k \in DOMAIN demandValues : Leq(demandValues[k].usage, machines)
  /\ \A id \in CurveIds(curves) : \A k \in DOMAIN queuesByCurve[id] :
       Leq(Zero, queuesByCurve[id][k].demand)

\* a cohort of two items has just been served in proportion: the capacity
\* is used up exactly and both items keep a positive remainder
CapacityRespectedWitness ==
  /\ pc = "cohort"
  /\ Less(Zero, machines)
  /\ actualUsage = machines
  /\ availableCapacity = Zero
  /\ \E a, b \in CurveIds(curves) :
       /\ a # b
       /\ \E k \in DOMAIN queuesByCurve[a], j \in DOMAIN queuesByCurve[b] :
            /\ queuesByCurve[a][k].arrivalTime = queuesByCurve[b][j].arrivalTime
            /\ Less(Zero, queuesByCurve[a][k].demand)
            /\ Less(Zero, queuesByCurve[b][j].demand)
            /\ Less(Zero, curveUsageThisMinute[a])
            /\ Less(Zero, curveUsageThisMinute[b])

\* the sources of the highest priority (the lowest priority value)
TopCurves == {c \in CurveSet : \A c2 \in CurveSet : c.priority <= c2.priority}
\* the sum of f over the sources of set S, recorded minute m
RECURSIVE SumOver(_, _)
SumOver(S, f) ==
  IF S = {} THEN Zero
  ELSE LET x == CHOOSE y \in S : TRUE
       IN  Plus(f[x], SumOver(S \ {x}, f))
TopDemandIn(m) == SumOver({c.id : c \in TopCurves}, [id \in CurveIds(curves) |-> DemandIn(id, m)])
TopUsageIn(m) == SumOver({c.id : c \in TopCurves}, [id \in CurveIds(curves) |-> UsageIn(id, m)])
\* all levels of the minute have been processed
MinuteAllocated == pc = "level" /\ lvl > Len(priorityLevels)

\* C3: strict priority.  At the end of the allocation of a minute a source
\* has received a positive amount only if the queue of every source with a
\* lower priority value is empty; and in a finished run in which the demand
\* of the highest-priority sources alone is at least the capacity in every
\* minute, these sources are served exactly the capacity in every minute,
\* and every other source is served nothing and sheds its whole demand.
StrictPriority ==
  /\ MinuteAllocated =>
       \A c, c2 \in CurveSet :
         (Less(Zero, curveUsageThisMinute[c.id]) /\ c2.priority < c.priority)
           => queuesByCurve[c2.id] = <<>>
  /\ (Done /\ \A m \in 0..(H - 1) : Leq(machines, TopDemandIn(m))) =>
       /\ \A m \in 0..(H - 1) : TopUsageIn(m) = machines
       /\ \A c \in CurveSet \ TopCurves :
            /\ \A m \in 0..(H - 1) : UsageIn(c.id, m) = Zero
            /\ utilizationByCurve[c.id] = Zero
            /\ shedByCurve[c.id] = TraceSum(c.id)

\* the scenario of the specification, scaled by 1/50: linear 3 per minute
\* at priority 1, linear 2 per minute at priority 2, capacity 2 per minute
StrictPriorityWitness ==
  /\ Done
  /\ machines = Num(2)
  /\ Len(curves) = 2
  /\ curves[1].type = "linear" /\ curves[1].totalDemand = Num(3 * H)
  /\ curves[1].priority = 1
  /\ curves[2].type = "linear" /\ curves[2].totalDemand = Num(2 * H)
  /\ curves[2].priority = 2
  /\ utilizationByCurve[1] = Num(2 * H)
  /\ shedByCurve[1] = Num(H)
  /\ utilizationByCurve[2] = Zero
  /\ shedByCurve[2] = Num(2 * H)

\* the only source of the highest priority
AloneOnTop(c) == \A c2 \in CurveSet : c2.id # c.id => c.priority < c2.priority
FitsEveryMinute(c) == \A m \in 0..(H - 1) : Leq(DemandIn(c.id, m), machines)

\* C4: priority dominance.  A source that is alone in the highest-priority
\* group and whose demand never exceeds the capacity is served, in every
\* minute, exactly what it demands in that minute, has an empty queue after
\* every minute and sheds nothing; at the end its served total is its
\* whole demand and the aggregate shed is the shed of the other sources.
PriorityDominance ==
  \A c \in CurveSet :
    (AloneOnTop(c) /\ FitsEveryMinute(c)) =>
      /\ \A m \in RecordedMinutes : UsageIn(c.id, m) = DemandIn(c.id, m)
      /\ pc \in {"minute", "metrics", "done"} => queuesByCurve[c.id] = <<>>
      /\ shedByCurve[c.id] = Zero
      /\ Done =>
           /\ utilizationByCurve[c.id] = TraceSum(c.id)
           /\ totalShedDemand
                = SumOver(CurveIds(curves) \ {c.id}, shedByCurve)

\* a finished run in which the dominant source had demand, and a
\* lower-priority source whose own demand fits the capacity in every minute
\* was shed in part
PriorityDominanceWitness ==
  /\ Done
  /\ \E c, c2 \in CurveSet :
       /\ AloneOnTop(c) /\ FitsEveryMinute(c)
       /\ Less(Zero, utilizationByCurve[c.id])
       /\ c2.id # c.id /\ FitsEveryMinute(c2)
       /\ Less(Zero, shedByCurve[c2.id])
       /\ Less(Zero, utilizationByCurve[c2.id])

\* the arrival minutes and remaining demands of a queue
QueueContents(id) ==
  [k \in DOMAIN queuesByCurve[id] |->
     <<queuesByCurve[id][k].arrivalTime, queuesByCurve[id][k].demand>>]
Identical(a, b) ==
  /\ a.type = b.type /\ a.totalDemand = b.totalDemand /\ a.priority = b.priority
  /\ a.peakHour = b.peakHour /\ a.curveWidth = b.curveWidth

\* C5: fair sharing.  Two sources of identical shape, volume, shape
\* parameters and priority have equal queue contents after every minute,
\* and at the end of the run equal served totals and equal shed totals.
FairSharing ==
  \A a, b \in CurveSet :
    (a.id # b.id /\ Identical(a, b)) =>
      /\ pc = "minute" => QueueContents(a.id) = QueueContents(b.id)
      /\ Done => /\ utilizationByCurve[a.id] = utilizationByCurve[b.id]
                 /\ shedByCurve[a.id] = shedByCurve[b.id]

\* a finished run of two identical sources under a capacity that forced
\* both to shed: both were served in part
FairSharingWitness ==
  /\ Done
  /\ \E a, b \in CurveSet :
       /\ a.id # b.id /\ Identical(a, b)
       /\ Less(Zero, utilizationByCurve[a.id])
       /\ Less(Zero, shedByCurve[a.id])
       /\ shedByCurve[a.id] = shedByCurve[b.id]

\* C6 as stated: with capacity 0 nothing is ever served and, at the end of
\* the run, the shed total of every source equals its total demand volume.
ZeroCapacityAsStated ==
  machines = Zero =>
    /\ actualUsage = Zero
    /\ Done => \A c \in CurveSet : shedByCurve[c.id] = c.totalDemand

\* C6, amended: with capacity 0 nothing is served in any minute, for every
\* source and every timeout, and at the end of the run the shed total of
\* every source equals the sum of its per-minute demand trace, which is
\* its total demand volume when the source is linear.
ZeroCapacity ==
  machines = Zero =>
    /\ actualUsage = Zero
    /\ totalUtilization = Zero
    /\ \A k \in DOMAIN demandValues : demandValues[k].usage = Zero
    /\ \A id \in CurveIds(curves) :
         /\ curveUsageThisMinute[id] = Zero
         /\ utilizationByCurve[id] = Zero
    /\ Done => \A c \in CurveSet :
                 /\ shedByCurve[c.id] = TraceSum(c.id)
                 /\ c.type = "linear" => shedByCurve[c.id] = c.totalDemand

\* a finished run with capacity 0, a timeout that let demand wait, a
\* linear source, and a gaussian source whose trace does not sum to its
\* volume
ZeroCapacityWitness ==
  /\ Done
  /\ machines = Zero
  /\ queueTimeout > 0
  /\ \E c \in CurveSet : c.type = "linear" /\ Less(Zero, shedByCurve[c.id])
  /\ \E c \in CurveSet : c.type = "gaussian" /\ Less(Zero, shedByCurve[c.id])
                          /\ shedByCurve[c.id] # c.totalDemand

\* the aggregate input demand of minute m
InputDemandIn(m) == SumSeq([k \in DOMAIN curves |-> DemandIn(curves[k].id, m)])
Ample == \A m \in 0..(H - 1) : Leq(InputDemandIn(m), machines)

\* C7: if the capacity is at least the aggregate input demand of every
\* minute, then every source is served in every minute exactly its demand
\* of that minute, every queue is empty at the end of every minute,
\* nothing is shed in any minute or in total, and at the end the total
\* served is the total demand.
AmpleCapacity ==
  Ample =>
    /\ \A c \in CurveSet : \A m \in RecordedMinutes : UsageIn(c.id, m) = DemandIn(c.id, m)
    /\ pc = "minute" => AllQueuesEmpty
    /\ \A k \in DOMAIN demandValues :
         /\ demandValues[k].shed = Zero
         /\ demandValues[k].queueSize = Zero
         /\ demandValues[k].usage = demandValues[k].demand
    /\ shedThisMinute = Zero
    /\ totalShedDemand = Zero
    /\ \A id \in CurveIds(curves) : shedByCurve[id] = Zero
    /\ Done => totalUtilization
                 = SumSeq([k \in DOMAIN curves |-> TraceSum(curves[k].id)])

\* a finished run of two sources with demand whose aggregate demand reaches
\* the capacity in some minute and never exceeds it
AmpleCapacityWitness ==
  /\ Done
  /\ Ample
  /\ Len(curves) = 2
  /\ \A c \in CurveSet : Less(Zero, utilizationByCurve[c.id])
  /\ \E m \in 0..(H - 1) : InputDemandIn(m) = machines

\* C8: monotonicity in the timeout.  The aggregate shed of the run, with
\* timeout queueTimeout, is at least the aggregate shed of the run with the
\* same capacity and sources and any longer timeout t2.
TimeoutMonotone ==
  Done =>
    \A t2 \in (queueTimeout + 1)..MaxTimeout :
      Leq(runFullSimulation(machines, curves, t2).totalShedDemand, totalShedDemand)

\* a finished run of two sources of different priorities for which a
\* longer timeout sheds strictly less
TimeoutMonotoneWitness ==
  /\ Done
  /\ Len(curves) = 2
  /\ curves[1].priority # curves[2].priority
  /\ \E t2 \in (queueTimeout + 1)..MaxTimeout :
       Less(runFullSimulation(machines, curves, t2).totalShedDemand, totalShedDemand)

\* a step of the cohort loop that serves a cohort
ServesCohort == pc = "cohort" /\ pc' = "cohort"
QueuedAmount == QueueSize(Cur)

\* C9: every unit of demand served in minute m arrived in a minute a with
\* 0 <= m - a <= queueTimeout.  With queueTimeout = 0 the expiry of the next
\* minute empties every queue and sheds exactly what the minute before left
\* queued, and the final drain does so after the last minute.
ServiceWindow ==
  [][/\ ServesCohort =>
          \A id \in CurveIds(curves) : \A k \in DOMAIN queuesByCurve[id] :
            Less(queuesByCurve'[id][k].demand, queuesByCurve[id][k].demand) =>
              /\ 0 <= minute - queuesByCurve[id][k].arrivalTime
              /\ minute - queuesByCurve[id][k].arrivalTime <= queueTimeout
     /\ (queueTimeout = 0 /\ pc = "minute" /\ pc' = "level") =>
          /\ \A id \in CurveIds(curves) : queuesByCurve'[id] = <<>>
          /\ shedThisMinute' = QueuedAmount
     /\ (queueTimeout = 0 /\ pc = "minute" /\ pc' = "metrics") =>
          totalShedDemand' = Plus(totalShedDemand, QueuedAmount)
    ]_vars

\* demand that waited the whole timeout has just been served in full, in
\* the last minute in which it could be served
ServiceWindowWitness ==
  /\ pc = "cohort"
  /\ queueTimeout > 0
  /\ \E id \in CurveIds(curves) : \E k \in DOMAIN queuesByCurve[id] :
       /\ queuesByCurve[id][k].arrivalTime = minute - queueTimeout
       /\ queuesByCurve[id][k].demand = Zero

\* C10 as stated: a run with zero sources returns an empty time series and
\* zero served and shed totals.
ZeroSourcesAsStated ==
  (Done /\ curves = <<>>) =>
    /\ result.data = <<>>
    /\ result.metrics.totalUtilization = 0
    /\ result.metrics.shedDemand = 0

\* the run is at a step it can take
CanStep ==
  \/ InMinuteLoop(Cur) \/ AfterMinuteLoop(Cur) \/ HasLevel(Cur) \/ LevelsDone(Cur)
  \/ InCohortLoop(Cur) \/ AfterCohortLoop(Cur) \/ pc = "metrics"

\* the minutes 0, SampleEvery, 2 * SampleEvery, ... below H
SampledCount == (H + SampleEvery - 1) \div SampleEvery

\* C10, amended: a run with zero sources completes and returns zero served
\* and zero shed totals together with a time series that is not empty: one
\* point for every sampled minute, each with input demand, served, queued
\* and shed amount 0.
ZeroSources ==
  curves = <<>> =>
    /\ ~Done => CanStep
    /\ Done =>
         /\ result.status = "returned"
         /\ Len(result.data) = SampledCount
         /\ \A k \in DOMAIN result.data :
              /\ result.data[k].time.mm + MinutesPerHour * result.data[k].time.hh
                   = SampleEvery * (k - 1)
              /\ result.data[k].inputDemand = Zero
              /\ result.data[k].actualUtilization = Zero
              /\ result.data[k].queuedDemand = Zero
              /\ result.data[k].shedDemand = Zero
              /\ result.data[k].capacity = machines
         /\ result.metrics.totalUtilization = 0
         /\ result.metrics.shedDemand = 0
         /\ totalUtilization = Zero
         /\ totalShedDemand = Zero

\* a run with zero sources has returned, with points in its time series
ZeroSourcesWitness ==
  /\ Done
  /\ curves = <<>>
  /\ Len(result.data) > 0
  /\ result.metrics.shedDemand = 0

\* ---------------------------------------------- invalid configurations (30)
\* runFullSimulation takes whatever it is called with: the run from the
\* arguments (m, cs, t) starts in InitState(m, cs, t)
StartsIn(s) ==
  /\ machines = s.machines
  /\ curves = s.curves
  /\ queueTimeout = s.queueTimeout
  /\ demandByCurve = s.demandByCurve
  /\ points = s.points
  /\ totalUtilization = s.totalUtilization
  /\ demandValues = s.demandValues
  /\ queuesByCurve = s.queuesByCurve
  /\ utilizationByCurve = s.utilizationByCurve
  /\ shedByCurve = s.shedByCurve
  /\ usageValuesByCurve = s.usageValuesByCurve
  /\ totalShedDemand = s.totalShedDemand
  /\ minute = s.minute
  /\ demand = s.demand
  /\ shedThisMinute = s.shedThisMinute
  /\ priorityLevels = s.priorityLevels
  /\ lvl = s.lvl
  /\ availableCapacity = s.availableCapacity
  /\ actualUsage = s.actualUsage
  /\ curveUsageThisMinute = s.curveUsageThisMinute
  /\ combinedQueue = s.combinedQueue
  /\ i = s.i
  /\ result = s.result
  /\ pc = s.pc

\* a linear curve
LinearCurve(id, volume, priority) ==
  [id |-> id, type |-> "linear", totalDemand |-> Num(volume), peakHour |-> Zero,
   curveWidth |-> Zero, priority |-> priority]

\* calls with an invalid configuration, as <<machines, curves, queueTimeout>>:
\* a negative capacity, a negative timeout, a non-positive priority, and
\* duplicate identifiers (alone and under two priorities)
InvalidCalls ==
  {<<Num(-1), <<LinearCurve(1, 2 * H, 1)>>, 0>>,
   <<Num(1), <<LinearCurve(1, 2 * H, 1)>>, -1>>,
   <<Num(1), <<LinearCurve(1, 2 * H, 0)>>, 1>>,
   <<Num(2), <<LinearCurve(1, 2 * H, 1), LinearCurve(1, 3 * H, 1)>>, 1>>,
   <<Num(2), <<LinearCurve(1, 2 * H, 1), LinearCurve(1, 3 * H, 2)>>, 0>>}

InitInvalid ==
  /\ \E c \in InvalidCalls : \E s \in {InitState(c[1], c[2], c[3])} : StartsIn(s)
  /\ returned = <<>>
  /\ PageLoaded /\ NoBoard

SpecInvalid == InitInvalid /\ [][Next]_vars

\* the configuration the run was called with is valid
ValidConfiguration ==
  /\ Leq(Zero, machines)
  /\ queueTimeout >= 0
  /\ \A k \in DOMAIN curves :
       /\ Leq(Zero, curves[k].totalDemand)
       /\ curves[k].type = "gaussian" => Less(Zero, curves[k].curveWidth)
       /\ curves[k].priority > 0
       /\ \A j \in DOMAIN curves : curves[j].id = curves[k].id => j = k

\* C11: an invalid configuration is rejected before the first minute is
\* simulated: the run never enters the minute loop, records no minute and
\* returns no metrics.
RejectsInvalid ==
  ~ValidConfiguration =>
    /\ pc = "minute" /\ minute = 0
    /\ demandValues = <<>>
    /\ result.status # "returned"

\* the metrics returned for a source
MetricsOf(id) == result.metrics.byCurve[id]

\* C12: in a run that contains a source whose total volume is 0 the run
\* completes, nothing of that source is ever queued, served or shed, and
\* its reported shed percent is the non-finite value of 0/0, neither an
\* error nor 0.
ZeroVolumeSource ==
  \A c \in CurveSet :
    c.totalDemand = Zero =>
      /\ ~Done => CanStep
      /\ queuesByCurve[c.id] = <<>>
      /\ utilizationByCurve[c.id] = Zero
      /\ shedByCurve[c.id] = Zero
      /\ Done =>
           /\ result.status = "returned"
           /\ MetricsOf(c.id).totalUtilization = 0
           /\ MetricsOf(c.id).shedDemand = 0
           /\ MetricsOf(c.id).shedPercent = ToFixed1(NaN)
           /\ MetricsOf(c.id).shedPercent # ToFixed1(Zero)

\* a finished run of a source without volume next to a source that was
\* served in part and shed in part
ZeroVolumeSourceWitness ==
  /\ Done
  /\ \E c, c2 \in CurveSet :
       /\ c.totalDemand = Zero
       /\ MetricsOf(c.id).shedPercent = [text |-> "NaN"]
       /\ Less(Zero, utilizationByCurve[c2.id])
       /\ Less(Zero, shedByCurve[c2.id])

\* ------------------------------------------------------- a second call (30)
\* mutant: the aggregate shed is kept outside the function and survives
\* into the next call
ReenterKeepingShed(s) ==
  [InitState(s.machines, s.curves, s.queueTimeout) EXCEPT
     !.totalShedDemand = s.totalShedDemand]

\* lines 30-59: the state in which a call with the arguments of the call
\* that ended in state s enters the minute loop; every local is created anew
Reenter(s) == InitState(s.machines, s.curves, s.queueTimeout)

\* the caller keeps what the first call returned and calls again with the
\* same capacity, the same list of curves and the same timeout
Rerun ==
  /\ pc = "done"
  /\ returned = <<>>
  /\ returned' = Append(returned, result)
  /\ UNCHANGED <<pageVars, boardVars, shapleyVars>>
  /\ Assign(Reenter(Cur))

NextTwice == Next \/ Rerun

SpecTwice == Init /\ [][NextTwice]_vars

InputsUnchanged ==
  [][/\ curves' = curves
     /\ machines' = machines
     /\ queueTimeout' = queueTimeout]_vars

\* a finished run of two sources given in the order lower priority first,
\* both grouped, queued and served
InputsUnchangedWitness ==
  /\ Done
  /\ Len(curves) = 2
  /\ curves[1].priority > curves[2].priority
  /\ \A c \in CurveSet : Less(Zero, utilizationByCurve[c.id])

\* C15: generateLinearDemand(totalDemand) returns a trace of exactly H
\* entries, every entry equal to totalDemand / H, and the entries sum to
\* totalDemand (stated of the trace when it has been generated and when
\* the run has finished).
LinearTrace ==
  (minute = 0 \/ Done) =>
    \A c \in CurveSet :
      c.type = "linear" =>
        /\ Len(demandByCurve[c.id]) = H
        /\ \A m \in 1..H : demandByCurve[c.id][m] = Div(c.totalDemand, Num(H))
        /\ SumSeq(demandByCurve[c.id]) = c.totalDemand

\* the traces of two linear sources of different positive volumes have
\* been generated and read through to the last minute
LinearTraceWitness ==
  /\ Done
  /\ \E a, b \in CurveSet :
       /\ a.type = "linear" /\ b.type = "linear"
       /\ Less(Zero, a.totalDemand) /\ Less(a.totalDemand, b.totalDemand)
       /\ Less(Zero, demandByCurve[a.id][H])
       /\ Less(demandByCurve[a.id][H], demandByCurve[b.id][H])

\* ------------------------------------- gaussian sources at the edge of the day
\* assert.close of the tests: actual is within tolerance * expected of
\* expected
Close(actual, expected, tolerance) ==
  LET diff == IF Less(actual, expected) THEN Minus(expected, actual)
                                        ELSE Minus(actual, expected)
      maxDiff == Times(expected, tolerance)
  IN  Leq(diff, maxDiff)

\* a gaussian curve
GaussianCurve(id, volume, peakHour, curveWidth, priority) ==
  [id |-> id, type |-> "gaussian", totalDemand |-> volume, peakHour |-> peakHour,
   curveWidth |-> curveWidth, priority |-> priority]

\* valid gaussian sources whose peak is in the first minutes of the day:
\* peakHour in [0, 24), curveWidth > 0
EdgePeaks == {Zero, Rat(1, MinutesPerHour)}
EdgeCurveLists ==
  {<<GaussianCurve(1, v, pk, Rat(1, MinutesPerHour), 1)>> :
     v \in {Num(5), Num(10)}, pk \in EdgePeaks}

InitEdge ==
  /\ \E m \in 0..MaxMachines, cs \in EdgeCurveLists, tm \in 0..MaxTimeout :
       \E s \in {InitState(Num(m), cs, tm)} : StartsIn(s)
  /\ returned = <<>>
  /\ PageLoaded /\ NoBoard

SpecEdge == InitEdge /\ [][Next]_vars

\* C16: for every valid gaussian source (peak in [0, 24) hours, spread > 0)
\* the entries of the trace that generateGaussianDemand produces sum to the
\* total demand volume of the source within 0.5%, the looser of the two
\* stated tolerances.
GaussianTraceWithinTolerance ==
  \A c \in CurveSet :
    (/\ c.type = "gaussian"
     /\ Leq(Zero, c.peakHour) /\ Less(c.peakHour, Rat(H, MinutesPerHour))
     /\ Less(Zero, c.curveWidth)) =>
       /\ demandByCurve[c.id]
            = generateGaussianDemand(c.totalDemand, c.peakHour, c.curveWidth)
       /\ Close(SumSeq(demandByCurve[c.id]), c.totalDemand, Rat(5, 1000))

\* ------------------------------------------------------ the reported metrics
\* the per-minute served amounts of a recorded series
UsagesOf(series) == [k \in DOMAIN series |-> series[k].usage]

\* the arithmetic mean of the PeakWindow largest of the values: the mean
\* over PeakWindow minutes that no other minute exceeds
MeanOfLargest(values) ==
  LET top == CHOOSE T \in SUBSET DOMAIN values :
               /\ Cardinality(T) = PeakWindow
               /\ \A a \in T : \A b \in DOMAIN values \ T :
                    Leq(values[b], values[a])
  IN  Div(SumOver(top, values), Num(PeakWindow))

\* the number a reported text with one decimal stands for
Reported(x) == Rat(x.tenths, 10)

\* C17 as stated: the reported peak utilization (aggregate and per source)
\* equals the mean of the PeakWindow largest per-minute served amounts of
\* the H minutes, and the reported average utilization equals the total
\* served divided by H.
PeakAndAverageAsStated ==
  Done =>
    /\ Reported(result.metrics.peakUtilization)
         = MeanOfLargest(UsagesOf(demandValues))
    /\ Reported(result.metrics.avgUtilization) = Div(totalUtilization, Num(H))
    /\ \A c \in CurveSet :
         /\ Reported(MetricsOf(c.id).peakUtilization)
              = MeanOfLargest(UsagesOf(usageValuesByCurve[c.id]))
         /\ Reported(MetricsOf(c.id).avgUtilization)
              = Div(utilizationByCurve[c.id], Num(H))

\* C17, amended: the reported peak utilization (aggregate and per source)
\* is the mean of the PeakWindow largest per-minute served amounts of all H
\* minutes, and the reported average utilization is the total served
\* divided by H, each rounded to one decimal place.
PeakAndAverage ==
  Done =>
    /\ Len(demandValues) = H
    /\ totalUtilization = SumSeq(UsagesOf(demandValues))
    /\ result.metrics.peakUtilization
         = ToFixed1(MeanOfLargest(UsagesOf(demandValues)))
    /\ result.metrics.avgUtilization = ToFixed1(Div(totalUtilization, Num(H)))
    /\ \A c \in CurveSet :
         /\ Len(usageValuesByCurve[c.id]) = H
         /\ utilizationByCurve[c.id] = SumSeq(UsagesOf(usageValuesByCurve[c.id]))
         /\ MetricsOf(c.id).peakUtilization
              = ToFixed1(MeanOfLargest(UsagesOf(usageValuesByCurve[c.id])))
         /\ MetricsOf(c.id).avgUtilization
              = ToFixed1(Div(utilizationByCurve[c.id], Num(H)))

\* a finished run whose largest served amounts are not those of the first
\* minutes and whose peak mean is not a whole number of tenths
PeakAndAverageWitness ==
  /\ Done
  /\ Less(Zero, MeanOfLargest(UsagesOf(demandValues)))
  /\ Reported(result.metrics.peakUtilization)
       # MeanOfLargest(UsagesOf(demandValues))
  /\ \E k \in 1..PeakWindow, j \in (PeakWindow + 1)..H :
       Less(demandValues[k].usage, demandValues[j].usage)

\* what all the sources were served in the recorded minute m
ServedIn(m) == SumSeq([k \in DOMAIN curves |-> UsageIn(curves[k].id, m)])
\* what was shed by the expiry of the recorded minutes
ShedOfMinutes == SumSeq([k \in DOMAIN demandValues |-> demandValues[k].shed])

\* C18: the time series has one point for each recorded minute m with
\* m mod 5 = 0, in increasing order, each (read when a minute has been
\* recorded) with the input demand, served, queued and shed amount of that
\* minute and the capacity; the returned series is this one; the served and
\* shed totals and the peak and average are accumulated over every one of
\* the H minutes, sampled or not.
TimeSeries ==
  /\ Len(points) = Cardinality({m \in RecordedMinutes : m % SampleEvery = 0})
  /\ pc = "minute" =>
       \A k \in DOMAIN points :
         LET m == SampleEvery * (k - 1)
         IN  /\ points[k].time = [hh |-> m \div MinutesPerHour,
                                  mm |-> m % MinutesPerHour]
             /\ points[k].inputDemand = InputDemandIn(m)
             /\ points[k].actualUtilization = ServedIn(m)
             /\ points[k].actualUtilization = demandValues[m + 1].usage
             /\ points[k].queuedDemand = demandValues[m + 1].queueSize
             /\ points[k].shedDemand = demandValues[m + 1].shed
             /\ points[k].capacity = machines
  /\ Done =>
       /\ result.data = points
       /\ Len(result.data) = SampledCount
       /\ totalUtilization
            = SumSeq([m \in 1..H |-> ServedIn(m - 1)])
       /\ totalShedDemand = Plus(ShedOfMinutes, demandValues[H].queueSize)
       /\ result.metrics.totalUtilization = Round(totalUtilization)
       /\ result.metrics.shedDemand = Round(totalShedDemand)
       /\ result.metrics.peakUtilization
            = ToFixed1(MeanOfLargest([m \in 1..H |-> ServedIn(m - 1)]))
       /\ result.metrics.avgUtilization
            = ToFixed1(Div(SumSeq([m \in 1..H |-> ServedIn(m - 1)]), Num(H)))

\* a finished run with more than one point in which demand was served and
\* shed in minutes that are not sampled, so that the totals exceed what the
\* points add up to
TimeSeriesWitness ==
  /\ Done
  /\ Len(result.data) > 1
  /\ \E m \in 0..(H - 1) :
       /\ m % SampleEvery # 0
       /\ Less(Zero, ServedIn(m))
       /\ Less(Zero, demandValues[m + 1].shed)
  /\ Less(SumSeq([k \in DOMAIN points |-> points[k].actualUtilization]),
          totalUtilization)
  /\ Less(SumSeq([k \in DOMAIN points |-> points[k].shedDemand]),
          totalShedDemand)

\* ------------------------------------------------------------------ expiry
\* the step from the head of the minute loop to the allocation (step 1)
ExpiryStep == pc = "minute" /\ pc' = "level"
\* the items of a queue that are older than the timeout in the minute now
Overdue(id) ==
  SelectSeq(queuesByCurve[id], LAMBDA it : minute - it.arrivalTime > queueTimeout)
NotOverdue(id) ==
  SelectSeq(queuesByCurve[id], LAMBDA it : ~(minute - it.arrivalTime > queueTimeout))

\* C19: expiry.  At the start of a minute every queued item has a positive
\* remainder and was not yet overdue in the minute before; the first step of
\* the minute removes exactly the items with minute - arrival > queueTimeout
\* (they arrived in minute - queueTimeout - 1), adds their remainders to the
\* shed totals of their sources and to the shed amount of the minute, keeps
\* the other items as they are, and allocates nothing; no step of the
\* allocation changes the arrival minute of an item.
ExpiryAtTimeout ==
  [][/\ ExpiryStep =>
          /\ \A id \in CurveIds(curves) :
               /\ \A k \in DOMAIN queuesByCurve[id] :
                    /\ Less(Zero, queuesByCurve[id][k].demand)
                    /\ (minute - 1) - queuesByCurve[id][k].arrivalTime <= queueTimeout
               /\ \A k \in DOMAIN Overdue(id) :
                    Overdue(id)[k].arrivalTime = minute - queueTimeout - 1
               /\ queuesByCurve'[id] = NotOverdue(id)
               /\ shedByCurve'[id]
                    = Plus(shedByCurve[id], SumSeq(DemandsOf(Overdue(id))))
          /\ shedThisMinute'
               = SumSeq([k \in DOMAIN curves |->
                           SumSeq(DemandsOf(Overdue(curves[k].id)))])
          /\ totalShedDemand' = Plus(totalShedDemand, shedThisMinute')
          /\ availableCapacity' = machines
          /\ actualUsage' = Zero
     /\ (pc \in {"level", "cohort"} /\ pc' = "cohort") =>
          \A id \in CurveIds(curves) :
            \A k \in DOMAIN queuesByCurve[id] :
              /\ k \in DOMAIN queuesByCurve'[id]
              /\ queuesByCurve'[id][k].arrivalTime = queuesByCurve[id][k].arrivalTime
    ]_vars

\* the expiry has just shed the remainder of an item that had waited the
\* whole timeout and had been served in part
ExpiryAtTimeoutWitness ==
  /\ pc = "level" /\ lvl = 1
  /\ queueTimeout > 0
  /\ Len(curves) = 1
  /\ Less(Zero, shedThisMinute)
  /\ minute - queueTimeout - 1 >= 0
  /\ Less(shedThisMinute, DemandIn(curves[1].id, minute - queueTimeout - 1))

\* -------------------------------------------------------------------- FIFO
\* the item k of the queue of id receives service in the step
Served(id, k) ==
  /\ k \in DOMAIN queuesByCurve'[id]
  /\ Less(queuesByCurve'[id][k].demand, queuesByCurve[id][k].demand)

NextCohort ==
  {j \in i..Len(combinedQueue) :
     ItemAt(Cur, combinedQueue[j]).arrivalTime
       = ItemAt(Cur, combinedQueue[i]).arrivalTime}
\* the remaining demand of the item at position j of the merged queue
RemainingAt(j) == ItemAt(Cur, combinedQueue[j]).demand
CohortTotal == SumOver(NextCohort, [j \in DOMAIN combinedQueue |-> RemainingAt(j)])
\* what the step leaves of the item at position j
RemainingAfter(j) ==
  queuesByCurve'[combinedQueue[j].curveId][combinedQueue[j].idx].demand

\* C21: proportional split.  A step of the allocation whose cohort demands
\* more than the capacity still available serves each item of the cohort
\* availableCapacity * remaining / cohortTotal, which is positive and less
\* than what the item demands; the served amounts add up to the available
\* capacity, and no capacity is left.  A step whose cohort demands at most
\* the available capacity serves every item of the cohort in full.
ProportionalSplit ==
  [][ServesCohort =>
       /\ Less(Zero, availableCapacity)
       /\ NextCohort # {}
       /\ Less(availableCapacity, CohortTotal) =>
            /\ \A j \in NextCohort :
                 /\ Minus(RemainingAt(j), RemainingAfter(j))
                      = Div(Times(availableCapacity, RemainingAt(j)), CohortTotal)
                 /\ Less(RemainingAfter(j), RemainingAt(j))
                 /\ Less(Zero, RemainingAfter(j))
            /\ Minus(actualUsage', actualUsage) = availableCapacity
            /\ availableCapacity' = Zero
       /\ Leq(CohortTotal, availableCapacity) =>
            /\ \A j \in NextCohort : RemainingAfter(j) = Zero
            /\ Minus(actualUsage', actualUsage) = CohortTotal
            /\ availableCapacity' = Minus(availableCapacity, CohortTotal)
    ]_vars

\* a cohort of two items of different size has just been split: the larger
\* item was served more and both keep a remainder
ProportionalSplitWitness ==
  /\ pc = "cohort"
  /\ availableCapacity = Zero
  /\ \E a, b \in CurveIds(curves) :
       \E k \in DOMAIN queuesByCurve[a], j \in DOMAIN queuesByCurve[b] :
         /\ a # b
         /\ queuesByCurve[a][k].arrivalTime = queuesByCurve[b][j].arrivalTime
         /\ Less(Zero, queuesByCurve[a][k].demand)
         /\ Less(queuesByCurve[a][k].demand, queuesByCurve[b][j].demand)
         /\ Less(Zero, curveUsageThisMinute[a])
         /\ Less(curveUsageThisMinute[a], curveUsageThisMinute[b])

\* ------------------------------------------------------------- final drain
\* the step after the last minute that sheds what is still queued (step 5)
DrainsQueues == pc = "minute" /\ pc' = "metrics"
\* what is queued for a source, whatever the age of the items
QueuedFor(id) == SumSeq(DemandsOf(queuesByCurve[id]))

\* C22: final forced drain.  The step after minute H - 1 adds the remaining
\* demand of every queued item, whatever its age, to the shed total of the
\* item's source and to the aggregate shed total; after it, what each
\* source generated is what it was served plus what it shed.
FinalDrain ==
  [][DrainsQueues =>
       /\ minute = H
       /\ \A id \in CurveIds(curves) :
            /\ shedByCurve'[id] = Plus(shedByCurve[id], QueuedFor(id))
            /\ utilizationByCurve'[id] = utilizationByCurve[id]
            /\ Plus(utilizationByCurve'[id], shedByCurve'[id]) = TraceSum(id)
       /\ totalShedDemand' = Plus(totalShedDemand, QueuedAmount)
       /\ Plus(totalUtilization', totalShedDemand')
            = SumSeq([k \in DOMAIN curves |-> TraceSum(curves[k].id)])
    ]_vars

\* the drain has shed, for one source, an item that arrived in the last
\* minute and an older item, neither of them older than the timeout
FinalDrainWitness ==
  /\ pc = "metrics"
  /\ queueTimeout = 1
  /\ \E id \in CurveIds(curves) :
       /\ Len(queuesByCurve[id]) = 2
       /\ queuesByCurve[id][1].arrivalTime = H - 2
       /\ queuesByCurve[id][2].arrivalTime = H - 1
       /\ Leq(QueuedFor(id), shedByCurve[id])
       /\ Less(Zero, utilizationByCurve[id])

\* ------------------------------------------------------ order of the steps
\* the source has new demand in the minute now
HasNewDemand(id) == minute < H /\ Less(Zero, NewDemand(Cur, id))
\* the new demand of the source is in its queue
IsQueuedNow(id) ==
  \E k \in DOMAIN queuesByCurve[id] : queuesByCurve[id][k].arrivalTime = minute
\* the new demand of the source was put in its queue this minute: it is
\* still there, or it has left the queue served in full
Inserted(id) == IsQueuedNow(id) \/ Less(Zero, curveUsageThisMinute[id])
\* the priority level whose queues are being served
LevelNow == priorityLevels[lvl]
\* the step of the allocation hands capacity to a source
Allocates == ServesCohort /\ actualUsage' # actualUsage

\* C23 as stated: when capacity of a minute is allocated to any source, the
\* new demand of every source, of every priority group, is in its queue.
AdmitBeforeAllocateAsStated ==
  [][Allocates =>
       \A c \in CurveSet : HasNewDemand(c.id) => Inserted(c.id)
    ]_vars

\* C23, amended: within each minute the expiry comes first and the record
\* last; the new demand of a source is inserted into its queue before any
\* capacity of that minute is allocated to a source of its own priority
\* group or of a lower one, and capacity goes to the sources of the group
\* being served only; the new demand of a lower priority group is inserted
\* when the turn of its group comes, after the higher groups were allocated.
AdmitBeforeAllocate ==
  [][/\ ExpiryStep =>
          /\ actualUsage' = Zero
          /\ \A c \in CurveSet : ~IsQueuedNow(c.id)'
     /\ Allocates =>
          \A c \in CurveSet :
            /\ (c.priority <= LevelNow /\ HasNewDemand(c.id)) => Inserted(c.id)
            /\ c.priority > LevelNow => ~Inserted(c.id)
            /\ c.priority # LevelNow =>
                 curveUsageThisMinute'[c.id] = curveUsageThisMinute[c.id]
     /\ (pc = "level" /\ pc' = "minute") =>
          /\ \A c \in CurveSet : HasNewDemand(c.id) => Inserted(c.id)
          /\ actualUsage' = actualUsage
          /\ queuesByCurve' = queuesByCurve
    ]_vars

\* capacity has been allocated to the first of two priority groups while
\* the new demand of the second group is not yet in its queue
AdmitBeforeAllocateWitness ==
  /\ pc = "cohort"
  /\ lvl = 1
  /\ Len(priorityLevels) = 2
  /\ Less(Zero, actualUsage)
  /\ Less(Zero, availableCapacity)
  /\ \E c \in CurveSet :
       /\ c.priority > LevelNow
       /\ HasNewDemand(c.id)
       /\ ~IsQueuedNow(c.id)

\* ------------------------------------------------------------- termination
\* where the control of the call is: the step it is at and the index of the
\* allocation loop
Control == <<pc, i>>
\* where the control goes from state s
NextPc(s) ==
  CASE InMinuteLoop(s) -> "level"
    [] AfterMinuteLoop(s) -> "metrics"
    [] HasLevel(s) -> "cohort"
    [] LevelsDone(s) -> "minute"
    [] InCohortLoop(s) -> "cohort"
    [] AfterCohortLoop(s) -> "level"
    [] s.pc = "metrics" -> "done"
NextI(s) ==
  CASE HasLevel(s) -> 1
    [] InCohortLoop(s) -> CohortEnd(s, s.i) + 1
    [] AfterCohortLoop(s) -> 1
    [] OTHER -> s.i
\* the control moves on
ControlStep == CanStep /\ pc' = NextPc(Cur) /\ i' = NextI(Cur)

\* runFullSimulation is one synchronous call: as long as a step can be
\* taken, the control moves on
SpecFair == Init /\ [][Next]_vars /\ WF_Control(ControlStep)

\* C24: termination.  For every configuration, capacity 0, sources without
\* volume, no source and timeout 0 included, the run ends: no state before
\* the end is without a next step, every pass of the allocation loop moves
\* its index forward within the merged queue, every recorded minute moves
\* the minute counter forward by one, and the run reaches the state in
\* which the result is returned, the minute loop having been stepped
\* exactly H times.
Terminates ==
  /\ [](~Done => CanStep)
  /\ [][/\ ControlStep
        /\ ServesCohort => (i < i' /\ i' <= Len(combinedQueue) + 1)
        /\ (pc = "level" /\ pc' = "minute") =>
             (minute' = minute + 1 /\ Len(demandValues') = minute')
        /\ DrainsQueues => minute = H]_vars
  /\ <>(/\ Done
        /\ minute = H
        /\ Len(demandValues) = H
        /\ result.status = "returned")

\* a run with capacity 0, timeout 0 and a source without volume beside a
\* source with volume has returned
TerminatesWitness ==
  /\ Done
  /\ result.status = "returned"
  /\ Len(demandValues) = H
  /\ machines = Zero
  /\ queueTimeout = 0
  /\ \E c \in CurveSet : c.totalDemand = Zero
  /\ \E c \in CurveSet : Less(Zero, c.totalDemand)

\* ------------------------------------------------------------ flow balance
\* what the source generated in the minutes recorded so far
GeneratedSoFar(id) == SumSeq(SubSeq(demandByCurve[id], 1, minute))
\* the queued amount recorded for minute m, nothing before the first minute
QueuedAfter(m) == IF m < 0 THEN Zero ELSE demandValues[m + 1].queueSize

\* the minute that has just been recorded, if any
LastRecorded == {m \in RecordedMinutes : m = minute - 1}

\* C25: per-minute flow balance.  When a minute m has been recorded, for
\* every source the demand generated so far equals what it was served so
\* far plus what it shed so far plus what is still queued for it; and the
\* queued amount recorded for m is the one recorded for m - 1 plus the
\* input demand of m minus what was served and what was shed in m.
FlowBalance ==
  pc = "minute" =>
    /\ \A id \in CurveIds(curves) :
         GeneratedSoFar(id)
           = Plus(Plus(utilizationByCurve[id], shedByCurve[id]), QueuedFor(id))
    /\ \A m \in LastRecorded :
         QueuedAfter(m)
           = Minus(Minus(Plus(QueuedAfter(m - 1), demandValues[m + 1].demand),
                         demandValues[m + 1].usage),
                   demandValues[m + 1].shed)

\* a minute has been recorded with a source that was served in part, shed
\* in part and is queued in part, the recorded queue having grown and then
\* shrunk
FlowBalanceWitness ==
  /\ pc = "minute"
  /\ 2 < minute /\ minute < H
  /\ \E id \in CurveIds(curves) :
       /\ Less(Zero, utilizationByCurve[id])
       /\ Less(Zero, shedByCurve[id])
       /\ Less(Zero, QueuedFor(id))
  /\ \E m \in 1..(minute - 2) :
       /\ Less(QueuedAfter(m - 1), QueuedAfter(m))
       /\ Less(QueuedAfter(m + 1), QueuedAfter(m))

\* -------------------------------------------------------- work conservation
MinOf(a, b) == IF Leq(a, b) THEN a ELSE b
\* what could be served in the recorded minute m: what was queued after
\* minute m - 1 and did not expire in m, and the new demand of m
BacklogIn(m) ==
  Plus(Minus(QueuedAfter(m - 1), demandValues[m + 1].shed), demandValues[m + 1].demand)

\* C26: work conservation.  When a minute has been recorded, the total
\* served in it is the smaller of the capacity and the backlog after expiry
\* plus the new demand: no capacity stays idle while unexpired demand
\* waits, whatever its priority.
WorkConserving ==
  pc = "minute" =>
    \A m \in LastRecorded :
      /\ demandValues[m + 1].usage = MinOf(machines, BacklogIn(m))
      /\ ServedIn(m) = demandValues[m + 1].usage

\* two priority groups: in one recorded minute the capacity was the limit
\* and demand stayed queued, in a later one the backlog, with demand
\* carried over from the minute before, was served whole below capacity
WorkConservingWitness ==
  /\ pc = "minute"
  /\ Len(PriorityLevels(curves)) = 2
  /\ \E m \in RecordedMinutes, n \in RecordedMinutes :
       /\ m < n
       /\ demandValues[m + 1].usage = machines
       /\ Less(machines, BacklogIn(m))
       /\ Less(demandValues[n + 1].shed, QueuedAfter(n - 1))
       /\ Less(Zero, demandValues[n + 1].usage)
       /\ demandValues[n + 1].usage = BacklogIn(n)
       /\ Less(BacklogIn(n), machines)

\* -------------------------------------------------------- order of the list
\* the lists that hold the curves of cs, each with its id, in another order
Reordered(cs) ==
  {[k \in DOMAIN cs |-> cs[f[k]]] :
     f \in {g \in [DOMAIN cs -> DOMAIN cs] :
              \A a, b \in DOMAIN cs : g[a] = g[b] => a = b}}

ShedOfTrace == Plus(ShedOfMinutes, QueuedAfter(H - 1))

\* C28 as stated: the aggregate shed that the metrics report equals the
\* sum of the per-minute shed amounts plus the amount queued at the end of
\* the last minute.
ShedAccountingAsStated ==
  Done => Num(result.metrics.shedDemand) = ShedOfTrace

\* C28, amended: the aggregate shed that the engine accumulates equals the
\* sum of the per-minute shed amounts over the H minutes plus the amount
\* queued at the end of the last minute, and the metrics report it rounded
\* to the nearest whole number; the final drain adds what is queued to the
\* total and changes no minute of the trace and no point.
ShedAccounting ==
  /\ [](Done =>
          /\ Len(demandValues) = H
          /\ totalShedDemand = ShedOfTrace
          /\ result.metrics.shedDemand = Round(ShedOfTrace))
  /\ [][DrainsQueues =>
          /\ totalShedDemand = ShedOfMinutes
          /\ totalShedDemand' = Plus(ShedOfMinutes, QueuedAfter(H - 1))
          /\ demandValues' = demandValues
          /\ points' = points]_vars

\* a finished run that shed by expiry in more than one minute and by the
\* final drain, and served in part
ShedAccountingWitness ==
  /\ Done
  /\ Less(Zero, QueuedAfter(H - 1))
  /\ Less(QueuedAfter(H - 1), totalShedDemand)
  /\ Less(Zero, totalUtilization)
  /\ \E m, n \in 1..H :
       /\ m < n
       /\ Less(Zero, demandValues[m].shed)
       /\ Less(Zero, demandValues[n].shed)

\* ------------------------------------------------------ bounds of the metrics
\* lines 217-218 and 229-230: peak and average before they are formatted
peakUtilization == PeakOf(demandValues)
avgUtilization == Div(totalUtilization, Num(H))
peakCurveUtilization(id) == PeakOf(usageValuesByCurve[id])
avgCurveUtilization(id) == Div(utilizationByCurve[id], Num(H))

\* C29: with a capacity above 0, a finished run has
\* 0 <= average utilization <= peak utilization <= capacity, in aggregate
\* and for every source, the reported average is not above the reported
\* peak, and the reported peak percent and average percent are at most
\* 100.
MetricsBounded ==
  (Done /\ Less(Zero, machines)) =>
    \E peak \in {peakUtilization} :
      /\ Leq(Zero, avgUtilization)
      /\ Leq(avgUtilization, peak)
      /\ Leq(peak, machines)
      /\ result.metrics.avgUtilization.tenths <= result.metrics.peakUtilization.tenths
      /\ result.metrics.avgPercent.tenths <= result.metrics.peakPercent.tenths
      /\ result.metrics.peakPercent.tenths <= 1000
      /\ 0 <= result.metrics.avgPercent.tenths
      /\ \A id \in CurveIds(curves) :
           \E peakCurve \in {peakCurveUtilization(id)} :
             /\ Leq(Zero, avgCurveUtilization(id))
             /\ Leq(avgCurveUtilization(id), peakCurve)
             /\ Leq(peakCurve, machines)
             /\ Leq(peakCurve, peak)
             /\ 0 <= MetricsOf(id).avgUtilization.tenths
             /\ MetricsOf(id).avgUtilization.tenths
                  <= MetricsOf(id).peakUtilization.tenths

\* a finished run of two sources in which the capacity was reached in the
\* peak window but not all day, and a source's own peak stayed below it
MetricsBoundedWitness ==
  /\ Done
  /\ Less(Zero, machines)
  /\ Len(curves) = 2
  /\ Less(Zero, avgUtilization)
  /\ Less(avgUtilization, peakUtilization)
  /\ peakUtilization = machines
  /\ result.metrics.peakPercent.tenths = 1000
  /\ result.metrics.avgPercent.tenths < 1000
  /\ \E id \in CurveIds(curves) :
       /\ Less(Zero, avgCurveUtilization(id))
       /\ Less(avgCurveUtilization(id), peakCurveUtilization(id))
       /\ Less(peakCurveUtilization(id), machines)

\* ============================================================ Shapley page
\* src/shapley/js/main.js: the Run/Stop button and the animation loop.  A
\* call of runSimulation runs until it awaits a timer and goes on when the
\* timer's callback runs; between two awaits nothing else runs.
\* the calls of runSimulation that the page starts
MaxLoops == 3
\* the largest value of the iterations slider
MaxIterations == 2
\* the number of pieces of the board, the steps of one iteration
MaxPieces == 2
\* the values of the speed slider: no delay, some delay
Delays == {0, 1}

\* lines 488-509, on the data the generator yields after n steps of the
\* iteration: a step (part_003, 354-387) or, after the last, the end
\* (389-393).  The loop breaks if the flag is down, draws, and awaits the
\* delay of a step; with no delay it takes the next data at once.  Out of
\* the generator it awaits the timer between iterations (line 514).
RECURSIVE ForOf(_, _, _)
ForOf(p, n, delay) ==
  IF n < MaxPieces
    THEN IF ~p.isRunning
           THEN [p EXCEPT !.loop.at = "iteration"]
           ELSE IF delay > 0
                  THEN [p EXCEPT !.loop.at = "step", !.loop.stepIndex = n + 1]
                  ELSE ForOf(p, n + 1, delay)
    ELSE [p EXCEPT !.loop.at = "iteration"]

\* lines 484-486 and 517-525: the test of the for loop; a new iteration
\* (part_003, 340: iterationCount++) or the end of the call
IterationStart(p, delay) ==
  IF p.loop.i < p.loop.iterationsToRun /\ p.isRunning
    THEN ForOf([p EXCEPT !.iterationCount = @ + 1], 0, delay)
    ELSE [p EXCEPT !.isRunning = FALSE, !.loop.at = "returned"]

\* lines 464-484: the call up to its first await
runSimulation(count, targetIterations, delay) ==
  LET remaining == targetIterations - count
      iterationsToRun == IF remaining > 0 THEN remaining ELSE targetIterations
  IN  IterationStart(
        [isRunning |-> TRUE,
         iterationCount |-> IF remaining <= 0 THEN 0 ELSE count,
         loop |-> [i |-> 0, iterationsToRun |-> iterationsToRun,
                   stepIndex |-> 0, at |-> "iteration"]],
        delay)

\* the call goes on after an await: in the generator (line 504) or with
\* the next pass of the for loop (line 514, then i++)
Resume(p, delay) ==
  IF p.loop.at = "step"
    THEN ForOf(p, p.loop.stepIndex, delay)
    ELSE IterationStart([p EXCEPT !.loop.i = @ + 1], delay)

\* lines 537-543: the click listener of the Run/Stop button
runBtnClick ==
  /\ IF isRunning
       THEN /\ isRunning' = FALSE
            /\ UNCHANGED <<iterationCount, loops>>
       ELSE /\ Len(loops) < MaxLoops
            /\ \E targetIterations \in 1..MaxIterations, delay \in Delays :
                 \E p \in {runSimulation(iterationCount, targetIterations, delay)} :
                   /\ isRunning' = p.isRunning
                   /\ iterationCount' = p.iterationCount
                   /\ loops' = Append(loops, p.loop)
  /\ UNCHANGED <<engineVars, boardVars, shapleyVars>>

\* the callback of the timer that call k of runSimulation awaits
TimerCallback(k) ==
  /\ loops[k].at # "returned"
  /\ \E delay \in Delays :
       \E p \in {Resume([isRunning |-> isRunning,
                         iterationCount |-> iterationCount,
                         loop |-> loops[k]], delay)} :
         /\ isRunning' = p.isRunning
         /\ iterationCount' = p.iterationCount
         /\ loops' = [loops EXCEPT ![k] = p.loop]
  /\ UNCHANGED <<engineVars, boardVars, shapleyVars>>

InitPage ==
  /\ StartsIn(InitState(Zero, <<>>, 0))
  /\ returned = <<>>
  /\ PageLoaded /\ NoBoard

\* some awaited timer fires
TimerFires == \E k \in DOMAIN loops : TimerCallback(k)

NextPage == runBtnClick \/ TimerFires

SpecPage == InitPage /\ [][NextPage]_vars

\* call k of runSimulation goes on iterating in this step: it draws a step
\* and awaits its delay, or it starts an iteration of the simulation
Iterates(k) ==
  /\ loops'[k] # loops[k]
  /\ loops'[k].at = "step" \/ iterationCount' # iterationCount

\* C30: at most one animation loop runs against the simulation.  A call of
\* runSimulation after which a later call was started (which takes a click
\* that found the flag down: the earlier call had been stopped) never goes
\* on iterating: when its timer fires it leaves its loops.
OneLoopAtATime ==
  [][\A k \in DOMAIN loops : k < Len(loops) => ~Iterates(k)]_vars

\* ------------------------------------------------------ shape of the queues
\* C35: queue shape.  When minute m has been recorded, every queue holds at
\* most one item for each arrival minute, and every queued item has a
\* remaining demand above 0 and an arrival minute a with
\* 0 <= m - a <= queueTimeout; so no queue holds more than queueTimeout + 1
\* items.
QueueShape ==
  (pc = "minute" /\ minute > 0) =>
    \A id \in CurveIds(curves) :
      /\ \A k, j \in DOMAIN queuesByCurve[id] :
           queuesByCurve[id][k].arrivalTime = queuesByCurve[id][j].arrivalTime
             => k = j
      /\ \A k \in DOMAIN queuesByCurve[id] :
           /\ Less(Zero, queuesByCurve[id][k].demand)
           /\ 0 <= (minute - 1) - queuesByCurve[id][k].arrivalTime
           /\ (minute - 1) - queuesByCurve[id][k].arrivalTime <= queueTimeout
      /\ Len(queuesByCurve[id]) <= queueTimeout + 1

\* a minute has been recorded with a queue that is full: queueTimeout + 1
\* items, the oldest as old as the timeout allows and served in part
QueueShapeWitness ==
  /\ pc = "minute"
  /\ minute > 0
  /\ queueTimeout > 0
  /\ \E id \in CurveIds(curves) :
       /\ Len(queuesByCurve[id]) = queueTimeout + 1
       /\ (minute - 1) - queuesByCurve[id][1].arrivalTime = queueTimeout
       /\ Less(queuesByCurve[id][1].demand,
               demandByCurve[id][queuesByCurve[id][1].arrivalTime + 1])

\* ============================================================ Board methods
\* src/shapley/js/board.js.  A board b is the record of its fields: b.grid[y][x]
\* is the pieceId in the cell or Null, b.pieces maps a pieceId to its type and
\* its cells, in the order of insertion, which is the order of the ids.

\* lines 12-20: the cells of the seven shapes, relative to the base
PIECE_SHAPES ==
  [I |-> << <<0, 0>>, <<1, 0>>, <<2, 0>>, <<3, 0>> >>,
   O |-> << <<0, 0>>, <<1, 0>>, <<0, 1>>, <<1, 1>> >>,
   T |-> << <<0, 0>>, <<1, 0>>, <<2, 0>>, <<1, 1>> >>,
   S |-> << <<1, 0>>, <<2, 0>>, <<0, 1>>, <<1, 1>> >>,
   Z |-> << <<0, 0>>, <<1, 0>>, <<1, 1>>, <<2, 1>> >>,
   J |-> << <<0, 0>>, <<0, 1>>, <<1, 1>>, <<2, 1>> >>,
   L |-> << <<2, 0>>, <<0, 1>>, <<1, 1>>, <<2, 1>> >>]

\* line 22
PIECE_TYPES == DOMAIN PIECE_SHAPES

\* lines 76-78 and 98-102: the cells of a shape at a base
ShapeCells(type, baseX, baseY) ==
  [k \in DOMAIN PIECE_SHAPES[type] |->
     [x |-> baseX + PIECE_SHAPES[type][k][1], y |-> baseY + PIECE_SHAPES[type][k][2]]]

\* the grid with v written into the cells
WriteCells(grid, cells, v) ==
  [y \in Rows |-> [x \in Columns |->
     IF \E k \in DOMAIN cells : cells[k].x = x /\ cells[k].y = y THEN v ELSE grid[y][x]]]

\* lines 63-72
getHeight(b) ==
  IF \E y \in Rows : \E x \in Columns : b.grid[y][x] # Null
    THEN 1 + CHOOSE y \in Rows :
               /\ \E x \in Columns : b.grid[y][x] # Null
               /\ \A z \in Rows : z > y => \A x \in Columns : b.grid[z][x] = Null
    ELSE 0

\* lines 74-87
canPlacePiece(b, type, baseX, baseY) ==
  \A k \in DOMAIN PIECE_SHAPES[type] :
    \E c \in {ShapeCells(type, baseX, baseY)[k]} :
      /\ c.x >= 0 /\ c.x < BoardWidth /\ c.y >= 0 /\ c.y < BoardHeight
      /\ b.grid[c.y][c.x] = Null

\* the map with one more entry
MapSet(map, id, piece) == [j \in DOMAIN map \cup {id} |-> IF j = id THEN piece ELSE map[j]]
\* the map without the entry of id
MapDelete(map, id) == [j \in DOMAIN map \ {id} |-> map[j]]

\* mutant: the piece is written without the test of canPlacePiece
placePieceUnchecked(b, type, baseX, baseY) ==
  [board |-> [grid |-> [y \in Rows |-> [x \in Columns |->
                 IF \E k \in DOMAIN PIECE_SHAPES[type] :
                      ShapeCells(type, baseX, baseY)[k] = [x |-> x, y |-> y]
                   THEN b.nextPieceId ELSE b.grid[y][x]]],
              pieces |-> MapSet(b.pieces, b.nextPieceId,
                                [type |-> type, cells |-> ShapeCells(type, baseX, baseY)]),
              nextPieceId |-> b.nextPieceId + 1],
   value |-> b.nextPieceId]

\* lines 89-112: the board after the call and the value returned
placePiece(b, type, baseX, baseY) ==
  IF ~canPlacePiece(b, type, baseX, baseY)
    THEN [board |-> b, value |-> Null]
    ELSE [board |-> [grid |-> WriteCells(b.grid, ShapeCells(type, baseX, baseY), b.nextPieceId),
                     pieces |-> MapSet(b.pieces, b.nextPieceId,
                                       [type |-> type, cells |-> ShapeCells(type, baseX, baseY)]),
                     nextPieceId |-> b.nextPieceId + 1],
          value |-> b.nextPieceId]

\* mutant: the piece leaves the map and stays in the grid
removePieceFromMapOnly(b, pieceId) ==
  IF pieceId \notin DOMAIN b.pieces
    THEN [board |-> b, value |-> FALSE]
    ELSE [board |-> [b EXCEPT !.pieces = MapDelete(b.pieces, pieceId)],
          value |-> TRUE]

\* lines 114-123
removePiece(b, pieceId) ==
  IF pieceId \notin DOMAIN b.pieces
    THEN [board |-> b, value |-> FALSE]
    ELSE [board |-> [b EXCEPT !.grid = WriteCells(b.grid, b.pieces[pieceId].cells, Null),
                              !.pieces = MapDelete(b.pieces, pieceId)],
          value |-> TRUE]

\* lines 132-142: the rows a cell can go down, over empty cells and cells of
\* its own piece, no further than the bottom
CellDrop(b, pieceId, c) ==
  CHOOSE drop \in 0 .. c.y :
    /\ \A testY \in (c.y - drop) .. (c.y - 1) : b.grid[testY][c.x] \in {Null, pieceId}
    /\ drop < c.y => b.grid[c.y - drop - 1][c.x] \notin {Null, pieceId}

\* lines 131-144
MinDrop(b, pieceId) ==
  CHOOSE m \in 0 .. BoardHeight :
    /\ \A k \in DOMAIN b.pieces[pieceId].cells : m <= CellDrop(b, pieceId, b.pieces[pieceId].cells[k])
    /\ \/ m = BoardHeight
       \/ \E k \in DOMAIN b.pieces[pieceId].cells : m = CellDrop(b, pieceId, b.pieces[pieceId].cells[k])

\* the cells of a piece, moved down
Lowered(cells, rows) == [k \in DOMAIN cells |-> [x |-> cells[k].x, y |-> cells[k].y - rows]]

\* mutant: the piece goes down one row less than it can
dropPieceShort(b, pieceId) ==
  IF pieceId \notin DOMAIN b.pieces
    THEN [board |-> b, value |-> 0]
    ELSE LET minDrop == MinDrop(b, pieceId) - 1
         IN
         IF minDrop <= 0
           THEN [board |-> b, value |-> 0]
           ELSE [board |-> [b EXCEPT
                   !.grid = WriteCells(WriteCells(b.grid, b.pieces[pieceId].cells, Null),
                                       Lowered(b.pieces[pieceId].cells, minDrop), pieceId),
                   !.pieces[pieceId].cells = Lowered(b.pieces[pieceId].cells, minDrop)],
                 value |-> minDrop]

\* lines 126-160
dropPiece(b, pieceId) ==
  IF pieceId \notin DOMAIN b.pieces
    THEN [board |-> b, value |-> 0]
    ELSE LET minDrop == MinDrop(b, pieceId)
         IN  IF minDrop = 0
               THEN [board |-> b, value |-> 0]
               ELSE [board |-> [b EXCEPT
                       !.grid = WriteCells(WriteCells(b.grid, b.pieces[pieceId].cells, Null),
                                           Lowered(b.pieces[pieceId].cells, minDrop), pieceId),
                       !.pieces[pieceId].cells = Lowered(b.pieces[pieceId].cells, minDrop)],
                     value |-> minDrop]

\* lines 164-171: the ids in the order of insertion, sorted by lowest cell
LowestCell(b, pieceId) ==
  CHOOSE y \in Rows :
    /\ \E k \in DOMAIN b.pieces[pieceId].cells : b.pieces[pieceId].cells[k].y = y
    /\ \A k \in DOMAIN b.pieces[pieceId].cells : b.pieces[pieceId].cells[k].y >= y

\* line 189, getPieceIds: the keys of the map in the order of insertion
RECURSIVE Ascending(_)
Ascending(S) ==
  IF S = {} THEN <<>>
  ELSE LET least == CHOOSE x \in S : \A z \in S : x <= z
       IN  <<least>> \o Ascending(S \ {least})

getPieceIds(b) == Ascending(DOMAIN b.pieces)

SortedPieceIds(b) ==
  LET ids == getPieceIds(b)
  IN  SortBy(ids, [x, y \in DOMAIN ids |-> LowestCell(b, ids[x]) < LowestCell(b, ids[y])])

\* lines 162-176: applyGravity up to the first pass of its for loop
GravityStart(b) ==
  [at |-> "for", pieceIds |-> SortedPieceIds(b), k |-> 1, changed |-> FALSE, totalDropped |-> 0]

\* lines 175-185: one pass of the for loop (177-183), or its end: the while
\* loop goes round again if a piece dropped, else the method returns
GravityStep(b, g) ==
  IF g.k <= Len(g.pieceIds)
    THEN LET d == dropPiece(b, g.pieceIds[g.k])
         IN  [board |-> d.board,
              gravity |-> [g EXCEPT !.k = @ + 1,
                                    !.changed = g.changed \/ d.value > 0,
                                    !.totalDropped = @ + d.value]]
    ELSE IF g.changed
           THEN [board |-> b, gravity |-> [g EXCEPT !.k = 1, !.changed = FALSE]]
           ELSE [board |-> b, gravity |-> [g EXCEPT !.at = "returned"]]

RECURSIVE GravityRun(_, _)
GravityRun(b, g) ==
  IF g.at = "returned"
    THEN [board |-> b, value |-> g.totalDropped]
    ELSE LET r == GravityStep(b, g)
         IN  GravityRun(r.board, r.gravity)

\* lines 162-186: the board after the call and the value returned
applyGravity(b) == GravityRun(b, GravityStart(b))

\* ------------------------------------------------ a board under its methods
\* the arguments of the calls: bases inside and just outside the board
BaseXs == -1 .. BoardWidth - 1
BaseYs == -1 .. BoardHeight - 1
PieceIds == 0 .. MaxPlaced

\* no call of applyGravity is under way: the methods are synchronous
BoardAtRest == gravity.at \in {"idle", "returned"}

PlacePiece ==
  /\ BoardAtRest
  /\ board.nextPieceId < MaxPlaced
  /\ \E type \in PIECE_TYPES, baseX \in BaseXs, baseY \in BaseYs :
       \E r \in {placePiece(board, type, baseX, baseY)} :
         /\ board' = r.board
         /\ call' = [op |-> "placePiece", args |-> <<type, baseX, baseY>>, value |-> r.value]
  /\ gravity' = GravityIdle
  /\ UNCHANGED <<engineVars, pageVars, shapleyVars>>

RemovePiece ==
  /\ BoardAtRest
  /\ \E pieceId \in PieceIds :
       \E r \in {removePiece(board, pieceId)} :
         /\ board' = r.board
         /\ call' = [op |-> "removePiece", args |-> <<pieceId>>, value |-> r.value]
  /\ gravity' = GravityIdle
  /\ UNCHANGED <<engineVars, pageVars, shapleyVars>>

DropPiece ==
  /\ BoardAtRest
  /\ \E pieceId \in PieceIds :
       \E r \in {dropPiece(board, pieceId)} :
         /\ board' = r.board
         /\ call' = [op |-> "dropPiece", args |-> <<pieceId>>, value |-> r.value]
  /\ gravity' = GravityIdle
  /\ UNCHANGED <<engineVars, pageVars, shapleyVars>>

\* applyGravity is called
ApplyGravity ==
  /\ BoardAtRest
  /\ gravity' = GravityStart(board)
  /\ call' = [op |-> "applyGravity", args |-> <<>>, value |-> Null]
  /\ UNCHANGED <<board, engineVars, pageVars, shapleyVars>>

\* the loops of applyGravity go on, up to its return
GravityLoop ==
  /\ gravity.at = "for"
  /\ \E r \in {GravityStep(board, gravity)} :
       /\ board' = r.board
       /\ gravity' = r.gravity
  /\ call' = IF gravity'.at = "returned"
               THEN [call EXCEPT !.value = gravity'.totalDropped]
               ELSE call
  /\ UNCHANGED <<engineVars, pageVars, shapleyVars>>

InitBoard ==
  /\ StartsIn(InitState(Zero, <<>>, 0))
  /\ returned = <<>>
  /\ PageLoaded /\ NoBoard

NextBoard == PlacePiece \/ RemovePiece \/ DropPiece \/ ApplyGravity \/ GravityLoop

SpecBoard == InitBoard /\ [][NextBoard]_vars

\* ---------------------------------------------------------------------------
\* C34: after any sequence of placePiece, removePiece, dropPiece and
\* applyGravity the grid and the pieces map agree: a cell holds pieceId p
\* exactly if p is in the map and lists the cell; every listed cell is inside
\* the board and no cell is listed twice; and a placePiece that would overlap
\* or leave the board returns null and changes nothing.
\* ---------------------------------------------------------------------------
\* piece p lists the cell (x, y)
Lists(b, p, x, y) ==
  \E k \in DOMAIN b.pieces[p].cells : b.pieces[p].cells[k] = [x |-> x, y |-> y]

GridAgreesWithPieces(b) ==
  /\ \A y \in Rows, x \in Columns : \A p \in PieceIds :
       b.grid[y][x] = p <=> (p \in DOMAIN b.pieces /\ Lists(b, p, x, y))
  /\ \A y \in Rows, x \in Columns : b.grid[y][x] \in PieceIds \cup {Null}
  /\ DOMAIN b.pieces \subseteq PieceIds
  /\ \A p \in DOMAIN b.pieces : \A k \in DOMAIN b.pieces[p].cells :
       /\ b.pieces[p].cells[k].x \in Columns
       /\ b.pieces[p].cells[k].y \in Rows
       /\ \A q \in DOMAIN b.pieces : \A j \in DOMAIN b.pieces[q].cells :
            b.pieces[p].cells[k] = b.pieces[q].cells[j] => (p = q /\ k = j)

\* the step is a call of placePiece that cannot place its piece
PlacesInVain ==
  /\ call'.op = "placePiece"
  /\ ~canPlacePiece(board, call'.args[1], call'.args[2], call'.args[3])

BoardConsistency ==
  /\ []GridAgreesWithPieces(board)
  /\ [][PlacesInVain => (call'.value = Null /\ board' = board)]_vars

\* a piece lies on the board and the last call was a placePiece, of a piece
\* inside the board, that returned null because it overlapped the other
BoardConsistencyWitness ==
  /\ call.op = "placePiece" /\ call.value = Null
  /\ canPlacePiece(EmptyBoard, call.args[1], call.args[2], call.args[3])
  /\ DOMAIN board.pieces = {0}

\* ---------------------------------------------------------------------------
\* C33: Board.applyGravity terminates on every board; when it returns every
\* piece has a cell in row 0 or a cell directly above a cell of another piece,
\* so no piece can move down by one row; the set of pieces, the shape of each
\* piece and the number of filled cells are as before the call.
\* ---------------------------------------------------------------------------
\* a method of the board runs to its end once called
SpecBoardFair == InitBoard /\ [][NextBoard]_vars /\ WF_vars(GravityLoop)

\* piece p has a cell in row 0 or directly above a cell of another piece
Rests(b, p) ==
  \E k \in DOMAIN b.pieces[p].cells :
    \E c \in {b.pieces[p].cells[k]} :
      c.y = 0 \/ b.grid[c.y - 1][c.x] \notin {Null, p}

\* lines 241-249, getFilledCellCount
getFilledCellCount(b) ==
  Cardinality({c \in Rows \X Columns : b.grid[c[1]][c[2]] # Null})

\* the cells of a piece relative to its first cell
Shape(cells) == [k \in DOMAIN cells |-> <<cells[k].x - cells[1].x, cells[k].y - cells[1].y>>]

\* the same pieces with the same types and shapes in the same columns, and as
\* many filled cells
SamePieces(a, b) ==
  /\ DOMAIN a.pieces = DOMAIN b.pieces
  /\ \A p \in DOMAIN a.pieces :
       /\ a.pieces[p].type = b.pieces[p].type
       /\ Shape(a.pieces[p].cells) = Shape(b.pieces[p].cells)
       /\ a.pieces[p].cells[1].x = b.pieces[p].cells[1].x
  /\ getFilledCellCount(a) = getFilledCellCount(b)
  /\ a.nextPieceId = b.nextPieceId

GravitySettles ==
  /\ (gravity.at = "for") ~> (gravity.at = "returned")
  /\ [](gravity.at = "returned" => \A p \in DOMAIN board.pieces : Rests(board, p))
  /\ [][gravity.at = "for" => SamePieces(board, board')]_vars

\* applyGravity has returned after moving pieces down, and a piece of the
\* board rests on the other and not on the bottom
GravitySettlesWitness ==
  /\ gravity.at = "returned" /\ call.op = "applyGravity" /\ call.value > 0
  /\ DOMAIN board.pieces = {0, 1}
  /\ \E p \in DOMAIN board.pieces : LowestCell(board, p) > 0

\* ===================================================== ShapleySimulation
\* src/shapley/js/board.js, Board.generate, and src/unnamed/part_003, the
\* class ShapleySimulation.

\* board.js, lines 201-214: the BASE piece, the two bottom rows
BaseCells == [k \in 1 .. 2 * BoardWidth |-> [x |-> (k - 1) % BoardWidth, y |-> (k - 1) \div BoardWidth]]

BaseBoard ==
  [grid |-> WriteCells(EmptyBoard.grid, BaseCells, 0),
   pieces |-> MapSet(<<>>, 0, [type |-> "BASE", cells |-> BaseCells]),
   nextPieceId |-> 1]

\* lines 229-230: the bases that generate tries, above the BASE piece.  The
\* code draws x from 0 .. width - 4 and y from 2 .. height - 3; on the small
\* board of the model every column and every row from 2 up is tried, which
\* adds boards and leaves none out
AttemptXs == Columns
AttemptYs == 2 .. BoardHeight - 1

\* lines 221-233: the boards after at most n calls of placePiece that placed
\* a piece (the calls that return null change nothing)
RECURSIVE Placed(_)
Placed(n) ==
  IF n = 0 THEN {BaseBoard}
  ELSE LET S == Placed(n - 1)
       IN  S \cup {placePiece(b, type, x, y).board :
                     b \in S, type \in PIECE_TYPES, x \in AttemptXs, y \in AttemptYs}

\* lines 197-239, for every seed and fill ratio
GeneratedBoards == {applyGravity(b).board : b \in Placed(MaxPlaced)}

Range(s) == {s[k] : k \in DOMAIN s}

\* part_003, lines 311-318: the orders that shuffleArray can return, one for
\* each sequence of draws of the seeded generator
shuffleArray(array) ==
  {p \in [DOMAIN array -> Range(array)] : \A k, j \in DOMAIN array : p[k] = p[j] => k = j}

\* lines 321-336, the constructor: total 0 and count 0 for every piece
NewContributions(b) == [id \in DOMAIN b.pieces |-> [total |-> 0, count |-> 0]]

\* lines 355-369 and 405-413: a piece is removed, gravity acts, the height is
\* read and the contribution is the loss of height
RemoveStep(b, currentHeight, pieceId) ==
  LET after == applyGravity(removePiece(b, pieceId).board).board
  IN  [board |-> after,
       currentHeight |-> getHeight(after),
       contribution |-> currentHeight - getHeight(after)]

\* lines 372-374 and 415-417
Accumulate(contribs, pieceId, contribution) ==
  [contribs EXCEPT ![pieceId].total = @ + contribution, ![pieceId].count = @ + 1]

\* lines 404-418: the pieces of the permutation from position next on are
\* removed in turn; the result holds the contributions of the iteration
RECURSIVE RemoveAll(_, _, _, _, _, _)
RemoveAll(contribs, b, currentHeight, permutation, next, steps) ==
  IF next > Len(permutation)
    THEN [contributions |-> contribs, board |-> b, steps |-> steps]
    ELSE LET r == RemoveStep(b, currentHeight, permutation[next])
         IN  RemoveAll(Accumulate(contribs, permutation[next], r.contribution),
                       r.board, r.currentHeight, permutation, next + 1,
                       Append(steps, r.contribution))

\* lines 399-418: one pass of the for loop of runIterations
Iteration(contribs, original, permutation) ==
  RemoveAll(contribs, original, getHeight(original), permutation, 1, <<>>)

\* lines 397-424: runIterations(count), with the permutation of each iteration
RECURSIVE runIterations(_, _)
runIterations(sim, permutations) ==
  IF permutations = <<>> THEN sim
  ELSE runIterations(
         [sim EXCEPT !.contributions =
                       Iteration(sim.contributions, sim.originalBoard, Head(permutations)).contributions,
                     !.iterationCount = @ + 1],
         Tail(permutations))

\* lines 434-436
getTotalIterations == iterationCount

\* the simulation as a record
Simulation ==
  [originalBoard |-> originalBoard, contributions |-> contributions, iterationCount |-> iterationCount]

\* no generator is part-way through an iteration
NoIterationOpen == generator.at = "none"

\* a call of runIterations
RunIterations ==
  /\ NoIterationOpen
  /\ \E count \in 1 .. MaxIterations :
       /\ iterationCount + count <= MaxIterations
       /\ \E permutations \in [1 .. count -> shuffleArray(getPieceIds(originalBoard))] :
            \E sim \in {runIterations(Simulation, permutations)} :
              /\ contributions' = sim.contributions
              /\ iterationCount' = sim.iterationCount
  /\ UNCHANGED <<originalBoard, generator, engineVars, isRunning, loops, boardVars>>

\* lines 339-352: the first next() of a generator of runIteration runs the
\* body up to the yield of 'start'
GeneratorStart ==
  /\ NoIterationOpen
  /\ iterationCount < MaxIterations
  /\ iterationCount' = iterationCount + 1
  /\ \E permutation \in shuffleArray(getPieceIds(originalBoard)) :
       generator' = [at |-> "start", board |-> originalBoard, permutation |-> permutation,
                     i |-> 0, currentHeight |-> getHeight(originalBoard), steps |-> <<>>]
  /\ UNCHANGED <<originalBoard, contributions, engineVars, isRunning, loops, boardVars>>

\* lines 354-387: next() runs one pass of the for loop up to the yield of
\* 'step'
GeneratorStep ==
  /\ generator.at \in {"start", "step"}
  /\ generator.i < Len(generator.permutation)
  /\ \E pieceId \in {generator.permutation[generator.i + 1]} :
       \E r \in {RemoveStep(generator.board, generator.currentHeight, pieceId)} :
         /\ contributions' = Accumulate(contributions, pieceId, r.contribution)
         /\ generator' = [generator EXCEPT !.at = "step", !.board = r.board,
                                           !.i = @ + 1, !.currentHeight = r.currentHeight,
                                           !.steps = Append(@, r.contribution)]
  /\ UNCHANGED <<originalBoard, engineVars, pageVars, boardVars>>

\* lines 389-393: after the last piece next() leaves the loop and yields 'end'
GeneratorEnd ==
  /\ generator.at \in {"start", "step"}
  /\ generator.i = Len(generator.permutation)
  /\ generator' = [generator EXCEPT !.at = "end"]
  /\ UNCHANGED <<originalBoard, contributions, engineVars, pageVars, boardVars>>

\* line 394: the next() after 'end' finds the generator done
GeneratorDone ==
  /\ generator.at = "end"
  /\ generator' = NoGenerator
  /\ UNCHANGED <<originalBoard, contributions, engineVars, pageVars, boardVars>>

\* main.js, lines 486-489 and 502-505: the run is stopped while the loop
\* awaits the delay of a step; the for-of loop then takes the next data from
\* the generator, a further step or the end, before its test of isRunning
\* breaks out of the loop, which closes the generator where it is
GeneratorAbandoned ==
  /\ \/ generator.at = "step" /\ generator.i >= 2
     \/ generator.at = "end" /\ generator.i >= 1
  /\ generator' = NoGenerator
  /\ UNCHANGED <<originalBoard, contributions, engineVars, pageVars, boardVars>>

\* lines 438-444
reset ==
  /\ NoIterationOpen
  /\ contributions' = NewContributions(originalBoard)
  /\ iterationCount' = 0
  /\ UNCHANGED <<originalBoard, generator, engineVars, isRunning, loops, boardVars>>

\* main.js, lines 322-356: generateBoard makes a board and a simulation of it
InitShapley ==
  /\ StartsIn(InitState(Zero, <<>>, 0))
  /\ returned = <<>>
  /\ PageLoaded
  /\ board = EmptyBoard /\ gravity = GravityIdle /\ call = NoCall
  /\ originalBoard \in GeneratedBoards
  /\ contributions = NewContributions(originalBoard)
  /\ generator = NoGenerator

NextShapley ==
  \/ RunIterations \/ GeneratorStart \/ GeneratorStep \/ GeneratorEnd
  \/ GeneratorDone \/ GeneratorAbandoned \/ reset

SpecShapley == InitShapley /\ [][NextShapley]_vars

\* ---------------------------------------------------------------------------
\* C32: in one complete iteration over any permutation of the pieces every
\* marginal contribution, the height before the removal minus the height after
\* removal and gravity, is >= 0; after the last removal the board is empty and
\* its height is 0; the contributions of the iteration add up to the height
\* of the original board.
\* ---------------------------------------------------------------------------
RECURSIVE SumInts(_)
SumInts(s) == IF s = <<>> THEN 0 ELSE Head(s) + SumInts(Tail(s))

IsEmptyBoard(b) ==
  /\ DOMAIN b.pieces = {}
  /\ \A y \in Rows, x \in Columns : b.grid[y][x] = Null

\* the contributions in steps are those of a complete iteration that started
\* from the board original and ended with the board b
CompleteIteration(original, steps, b) ==
  /\ Len(steps) = Cardinality(DOMAIN original.pieces)
  /\ \A k \in DOMAIN steps : steps[k] >= 0
  /\ IsEmptyBoard(b) /\ getHeight(b) = 0
  /\ SumInts(steps) = getHeight(original)

IterationSumsToHeight ==
  /\ \A permutation \in shuffleArray(getPieceIds(originalBoard)) :
       \E r \in {Iteration(NewContributions(originalBoard), originalBoard, permutation)} :
         CompleteIteration(originalBoard, r.steps, r.board)
  /\ generator.at # "none" =>
       /\ \A k \in DOMAIN generator.steps : generator.steps[k] >= 0
       /\ SumInts(generator.steps) = getHeight(originalBoard) - getHeight(generator.board)
  /\ (generator.at # "none" /\ generator.i = Len(generator.permutation)) =>
       CompleteIteration(originalBoard, generator.steps, generator.board)

\* an iteration over three pieces is complete: the BASE piece went first, so
\* that gravity moved the others, one removal took no height and one took some
IterationSumsToHeightWitness ==
  /\ generator.at = "end"
  /\ Len(generator.permutation) = 3
  /\ generator.permutation[1] = 0
  /\ \E k \in DOMAIN generator.steps : generator.steps[k] = 0
  /\ \E k \in DOMAIN generator.steps : generator.steps[k] > 0
  /\ getHeight(originalBoard) > 2

\* ---------------------------------------------------------------------------
\* C31: after any sequence of runIterations, runIteration generators consumed
\* to the end or abandoned part-way when the run is stopped, and reset, the
\* contribution count of every piece equals getTotalIterations().
\* ---------------------------------------------------------------------------
CountsEqualTotalIterations ==
  NoIterationOpen =>
    \A id \in DOMAIN contributions : contributions[id].count = getTotalIterations

====
